---- MODULE Spec2Model ----
(***************************************************************************)
(* Customer synchronisation engine of SyncFlow: the customers API (the     *)
(* internal mutation layer), the Stripe webhook ingress, the two Kafka     *)
(* topics, the Outbound and the Inbound Sync Worker, and the three tables  *)
(* (customers, external_mappings, sync_events) with their constraints.     *)
(*                                                                         *)
(* The tables hold COMMITTED rows only.  A worker's session is its record  *)
(* (ob, ib); a step of a worker is the code between two points where       *)
(* another process can commit (a SELECT, the provider call, a COMMIT).     *)
(***************************************************************************)
EXTENDS Integers, Sequences, FiniteSets, TLC

\* ------------------------------------------------------------------ bounds
MaxCust == 2        \* customer ids the customers sequence hands out
MaxExt == 2         \* external ids the provider hands out
MaxOutMsgs == 2     \* messages ever published on sync.outbound
MaxInMsgs == 1      \* messages ever published on sync.inbound
MaxInSeq == 3       \* the same, when only the webhook and the inbound worker run
MaxAdapterCalls == 3 \* direct calls of the adapter's delete_customer

\* ------------------------------------------------------------------ values
STRIPE == "stripe"
SALESFORCE == "salesforce"

CREATED == "customer.created"
UPDATED == "customer.updated"
DELETED == "customer.deleted"
EventTypes == {CREATED, UPDATED, DELETED}

NULL == "NULL"          \* SQL NULL of a text column / Python None
NULLID == 0             \* SQL NULL of an integer column; ids start at 1
ABSENT == "ABSENT"      \* key missing from a payload dict
ERR == "err"            \* str(e) of the exception being handled

ApiNames == {"Ada"}
Emails == {"a@x", "b@x"}
HookNames == {"Bob"}
HookEmails == {"b@x"}

Terminal == {"completed", "failed", "skipped"}

VARIABLES
    customers,      \* customers table: id -> [name, email]
    nextCustId,     \* customers.id sequence
    mappings,       \* external_mappings table: set of rows
    sync_events,    \* sync_events table: row id -> row
    stripe,         \* external ids that exist at the provider
    nextExt,        \* next id the provider hands out
    outTopic,       \* sync.outbound, the whole log
    inTopic,        \* sync.inbound, the whole log
    outOffset,      \* messages of sync.outbound the outbound consumer has finished
    inOffset,       \* messages of sync.inbound the inbound consumer has finished
    ob,             \* OutboundSyncWorker.process_message: position and locals
    ib,             \* InboundSyncWorker.process_message: position and locals
    apiDel,         \* delete_customer between its publish and its commit (0: none)
    calls,          \* provider calls made by the adapter: [who, offset, op, ext, ok]
    outLog,         \* per finished outbound message: how process_message ended
    inLog,          \* per finished inbound message: how process_message ended
    wk,             \* BaseWorker of the outbound worker: start()'s position and fields
    apiResp,        \* the answer to the last request of the customers API
    reported,       \* adapter calls the provider has sent its callback for
    adapterLog      \* direct calls of StripeIntegration.delete_customer and their results

vars == <<customers, nextCustId, mappings, sync_events, stripe, nextExt,
          outTopic, inTopic, outOffset, inOffset, ob, ib, apiDel, calls,
          outLog, inLog, wk, apiResp, reported, adapterLog>>

dbVars == <<customers, nextCustId, mappings, sync_events>>
outWorkerVars == <<outOffset, ob, outLog>>
inWorkerVars == <<inOffset, ib, inLog>>
auxVars == <<wk, apiResp, reported, adapterLog>>

\* ------------------------------------------------------------------ tables

\* ExternalMapping row
MappingRow(cid, sys, ext) ==
    [internal_customer_id |-> cid, external_system |-> sys, external_id |-> ext]

\* select(ExternalMapping).where(internal_customer_id == cid, external_system == sys)
MappingsByInternal(ms, cid, sys) ==
    {m \in ms : m.internal_customer_id = cid /\ m.external_system = sys}

\* select(ExternalMapping).where(external_id == ext, external_system == sys)
MappingsByExternal(ms, ext, sys) ==
    {m \in ms : m.external_id = ext /\ m.external_system = sys}

\* UniqueConstraint('external_system', 'external_id') dropped.
UniqueViolation_NoExternalKey(ms, row) ==
    \E m \in ms : /\ m.internal_customer_id = row.internal_customer_id
                  /\ m.external_system = row.external_system

\* The two UniqueConstraints of external_mappings: would inserting row break one?
UniqueViolation(ms, row) ==
    \E m \in ms :
        \/ /\ m.external_system = row.external_system
           /\ m.external_id = row.external_id
        \/ /\ m.internal_customer_id = row.internal_customer_id
           /\ m.external_system = row.external_system

\* external_mappings without the foreign key to customers.
ForeignKeyViolation_Unchecked(cs, row) == FALSE

\* ForeignKey("customers.id"): the row's customer must exist.
ForeignKeyViolation(cs, row) == row.internal_customer_id \notin DOMAIN cs

\* INSERT of a mapping row is rejected (IntegrityError).
\* A database without the constraints: no INSERT of a mapping row is rejected.
MappingInsertRejected_Never(cs, ms, row) == FALSE

MappingInsertRejected(cs, ms, row) ==
    ForeignKeyViolation(cs, row) \/ UniqueViolation(ms, row)

\* customers.email unique=True: email used by a customer other than cid.
EmailTaken(cs, email, cid) ==
    \E c \in DOMAIN cs : c # cid /\ cs[c].email = email

\* DELETE of a customer, ondelete="CASCADE" / cascade="all, delete-orphan".
CustomersWithout(cs, cid) == [c \in DOMAIN cs \ {cid} |-> cs[c]]

\* The customer deleted with its mappings left behind.
MappingsWithout_Kept(ms, cid) == ms

\* The mappings that remain when customer cid is deleted.
MappingsWithout(ms, cid) == {m \in ms : m.internal_customer_id # cid}

\* customers with one row added or replaced
CustomersWith(cs, cid, rec) ==
    [c \in DOMAIN cs \cup {cid} |-> IF c = cid THEN rec ELSE cs[c]]

\* SyncEvent row.  src and offset identify the delivery whose message is the
\* row's payload column.
SyncEvent(src, offset, event_type, entity_id, status, error_message, retry_count) ==
    [src |-> src, offset |-> offset, event_type |-> event_type,
     entity_type |-> "customer", entity_id |-> entity_id,
     external_system |-> STRIPE, status |-> status,
     error_message |-> error_message, retry_count |-> retry_count]

\* sync_events.entity_id and sync_events.event_type are nullable=False: INSERT
\* of the row is rejected.
SyncEventInsertRejected(row) == row.entity_id = NULLID \/ row.event_type = NULL


\* ------------------------------------------------------------------ messages

\* The envelope _publish_customer_event puts on sync.outbound.  The worker reads
\* event_type, customer_data.id and skip_outbound only (name and email of a
\* customer are re-read from the customers table), so the rest is left out.
OutMsg(event_type, id) ==
    [event_type |-> event_type, id |-> id, skip_outbound |-> FALSE]

\* A message of sync.inbound: source, event_type, data.external_id, data.name,
\* data.email and skip_outbound (the keys a consumer reads).
InMsg(source, event_type, ext, name, email, skip) ==
    [source |-> source, event_type |-> event_type, external_id |-> ext,
     name |-> name, email |-> email, skip_outbound |-> skip]

\* StripeIntegration.transform_external_to_internal: the name and the email of
\* the Stripe object, "" for None.  Both keys are always in the result.
transform_external_to_internal(ext, name, email) ==
    [external_id |-> ext,
     name |-> IF name = NULL THEN "" ELSE name,
     email |-> IF email = NULL THEN "" ELSE email]

\* _publish_customer_event: produce on sync.outbound; a failure of the
\* producer is logged and swallowed.
publish_customer_event(topic, event_type, id, produced) ==
    IF produced THEN Append(topic, OutMsg(event_type, id)) ELSE topic

\* _publish_customer_event with its handler re-raising what produce_message
\* raised.
publish_raises_Propagates(produced) == ~produced

\* _publish_customer_event, lines 228-256: does a publish that failed raise
\* into the request handler?  The exception is logged and dropped.
publish_raises(produced) == FALSE

\* The status a request that passed its checks is answered with: the route's
\* success status, or 500 from the handler's except Exception branch.
ResponseStatus(op, produced) ==
    IF publish_raises(produced) THEN 500
    ELSE CASE op = "create" -> 201
           [] op = "update" -> 200
           [] op = "delete" -> 204

\* ------------------------------------------------------------------ init

ObIdle == [pc |-> "idle", external_id |-> NULLID, row |-> NULLID]

\* BaseWorker.__init__: running False, consumer None.  The other fields are
\* start()'s locals, the registry entry kafka_client.consumers[topic], the
\* offset the consumer group has committed, and what has been observed of
\* the worker (sleeps made, calls of start_consumer, stop() called from outside).
WorkerNew ==
    [pc |-> "new", running |-> FALSE, consumer |-> FALSE, retry_count |-> 0,
     attached |-> FALSE, committed |-> 0, slept |-> <<>>, attempts |-> 0,
     stop_called |-> FALSE]

\* No request answered yet.
NoResponse ==
    [op |-> "none", cid |-> NULLID, status |-> 0, produced |-> TRUE,
     name |-> ABSENT, email |-> ABSENT, pending |-> TRUE]
IbIdle == [pc |-> "idle", customer_id |-> NULLID]

Init ==
    /\ customers = <<>>
    /\ nextCustId = 1
    /\ mappings = {}
    /\ sync_events = <<>>
    /\ stripe = {}
    /\ nextExt = 1
    /\ outTopic = <<>>
    /\ inTopic = <<>>
    /\ outOffset = 0
    /\ inOffset = 0
    /\ ob = ObIdle
    /\ ib = IbIdle
    /\ apiDel = NULLID
    /\ calls = {}
    /\ outLog = <<>>
    /\ inLog = <<>>
    /\ wk = WorkerNew
    /\ apiResp = NoResponse
    /\ reported = {}
    /\ adapterLog = <<>>

\* ------------------------------------------------------------------ customers API

\* POST /customers: insert, commit, then publish customer.created.
\* (A request whose email is taken is answered 400 and changes nothing.)
create_customer(name, email, produced) ==
    /\ nextCustId <= MaxCust
    /\ Len(outTopic) < MaxOutMsgs
    /\ ~EmailTaken(customers, email, NULLID)
    /\ customers' = CustomersWith(customers, nextCustId, [name |-> name, email |-> email])
    /\ nextCustId' = nextCustId + 1
    /\ outTopic' = publish_customer_event(outTopic, CREATED, nextCustId, produced)
    /\ UNCHANGED <<mappings, sync_events, stripe, nextExt, inTopic, outOffset,
                   inOffset, ob, ib, apiDel, calls, outLog, inLog>>
    /\ UNCHANGED <<wk, reported, adapterLog>>

\* model_dump(exclude_unset=True) applied with setattr: only the fields sent.
UpdateFields(rec, name, email) ==
    [name |-> IF name = ABSENT THEN rec.name ELSE name,
     email |-> IF email = ABSENT THEN rec.email ELSE email]

\* PUT /customers/{id}: update the fields sent, commit, then publish
\* customer.updated.  (404 and 400 change nothing.)
update_customer(cid, name, email, produced) ==
    /\ cid \in DOMAIN customers
    /\ Len(outTopic) < MaxOutMsgs
    /\ ~(email # ABSENT /\ email # customers[cid].email /\ EmailTaken(customers, email, cid))
    /\ customers' = CustomersWith(customers, cid, UpdateFields(customers[cid], name, email))
    /\ outTopic' = publish_customer_event(outTopic, UPDATED, cid, produced)
    /\ UNCHANGED <<nextCustId, mappings, sync_events, stripe, nextExt, inTopic,
                   outOffset, inOffset, ob, ib, apiDel, calls, outLog, inLog>>
    /\ UNCHANGED <<wk, reported, adapterLog>>

\* DELETE /customers/{id}, first half: the customer is found and
\* customer.deleted is published before anything is deleted.
delete_customer_publish(cid, produced) ==
    /\ apiDel = NULLID
    /\ cid \in DOMAIN customers
    /\ Len(outTopic) < MaxOutMsgs
    /\ outTopic' = publish_customer_event(outTopic, DELETED, cid, produced)
    /\ apiDel' = IF publish_raises(produced) THEN NULLID ELSE cid
    /\ UNCHANGED <<dbVars, stripe, nextExt, inTopic, outOffset, inOffset, ob, ib,
                   calls, outLog, inLog>>
    /\ UNCHANGED <<wk, reported, adapterLog>>

\* DELETE /customers/{id}, second half: db.delete(customer) and commit; the
\* customer's mappings go with it.
delete_customer_commit ==
    /\ apiDel # NULLID
    /\ customers' = CustomersWithout(customers, apiDel)
    /\ mappings' = MappingsWithout(mappings, apiDel)
    /\ apiDel' = NULLID
    /\ UNCHANGED <<nextCustId, sync_events, stripe, nextExt, outTopic, inTopic,
                   outOffset, inOffset, ob, ib, calls, outLog, inLog>>
    /\ UNCHANGED <<wk, reported, adapterLog>>

\* The requests above together with the answer the client receives.  While a
\* DELETE is between its publish and its commit, pending remembers whether
\* its event was produced; other requests are answered meanwhile.
Response(op, cid, status, produced, name, email, pending) ==
    [op |-> op, cid |-> cid, status |-> status, produced |-> produced,
     name |-> name, email |-> email, pending |-> pending]

ApiCreate(name, email, produced) ==
    /\ create_customer(name, email, produced)
    /\ apiResp' = Response("create", nextCustId, ResponseStatus("create", produced),
                           produced, name, email, apiResp.pending)

ApiUpdate(cid, name, email, produced) ==
    /\ update_customer(cid, name, email, produced)
    /\ apiResp' = Response("update", cid, ResponseStatus("update", produced),
                           produced, name, email, apiResp.pending)

ApiDeletePublish(cid, produced) ==
    /\ delete_customer_publish(cid, produced)
    /\ apiResp' = IF publish_raises(produced)
                  THEN Response("delete", cid, 500, produced, ABSENT, ABSENT,
                                apiResp.pending)
                  ELSE [apiResp EXCEPT !.pending = produced]

ApiDeleteCommit ==
    /\ delete_customer_commit
    /\ apiResp' = Response("delete", apiDel, ResponseStatus("delete", apiResp.pending),
                           apiResp.pending, ABSENT, ABSENT, TRUE)

\* ------------------------------------------------------------------ webhook ingress

\* The provider's own state moves with the event it reports about external
\* customer ext: an id not seen before is a customer that exists at the
\* provider, a deleted event is a customer removed there.
ProviderReports(event_type, ext) ==
    /\ ext <= nextExt
    /\ ext <= MaxExt
    /\ nextExt' = IF ext = nextExt THEN nextExt + 1 ELSE nextExt
    /\ stripe' = IF event_type = DELETED THEN stripe \ {ext}
                 ELSE IF ext = nextExt THEN stripe \cup {ext}
                 ELSE stripe

\* POST /webhooks/stripe for a customer.* event whose object has id ext and
\* the given name and email (NULL: None): the object is transformed and the
\* message is produced on sync.inbound with skip_outbound set.  The same event
\* can be reported again (webhook redelivery).
stripe_webhook(limit, event_type, ext, name, email) ==
    /\ Len(inTopic) < limit
    /\ ProviderReports(event_type, ext)
    /\ LET customer_data == transform_external_to_internal(ext, name, email)
       IN  inTopic' = Append(inTopic,
               InMsg(STRIPE, event_type, customer_data.external_id,
                     customer_data.name, customer_data.email, TRUE))
    /\ UNCHANGED <<dbVars, outTopic, outOffset, inOffset, ob, ib, apiDel, calls,
                   outLog, inLog>>
    /\ UNCHANGED <<wk, apiResp, adapterLog>>

\* POST /webhooks/salesforce: the event is produced on sync.inbound under
\* the key salesforce_event; the message has no event_type and no data.
salesforce_webhook(limit) ==
    /\ Len(inTopic) < limit
    /\ inTopic' = Append(inTopic, InMsg(SALESFORCE, NULL, NULLID, ABSENT, ABSENT, FALSE))
    /\ UNCHANGED <<dbVars, stripe, nextExt, outTopic, outOffset, inOffset, ob, ib,
                   apiDel, calls, outLog, inLog>>
    /\ UNCHANGED auxVars

\* KafkaClient.produce_message on sync.inbound by an ingress other than the
\* two routes: the envelope of a provider event whose data carries only some
\* of the fields (name, email: a value or ABSENT).
produce_message(limit, event_type, ext, name, email) ==
    /\ Len(inTopic) < limit
    /\ ProviderReports(event_type, ext)
    /\ inTopic' = Append(inTopic, InMsg(STRIPE, event_type, ext, name, email, TRUE))
    /\ UNCHANGED <<dbVars, outTopic, outOffset, inOffset, ob, ib, apiDel, calls,
                   outLog, inLog>>
    /\ UNCHANGED auxVars

\* ------------------------------------------------------------------ provider adapter

\* A call the StripeIntegration made for the delivery (who, offset).
Call(who, offset, op, ext, ok) ==
    [who |-> who, offset |-> offset, op |-> op, ext |-> ext, ok |-> ok]

\* What stripe.Customer.delete answers for an external id: the provider's own
\* failure if there is one, else deleted or "No such customer".
Faults == {"invalid_request", "rate_limit", "authentication", "connection"}
NoFault == "none"

ProviderDelete(known, fault) ==
    IF fault # NoFault THEN fault
    ELSE IF known THEN "deleted" ELSE "no_such_customer"

\* delete_customer written like update_customer (lines 66-72): an unknown
\* customer is raised as CustomerNotFoundError.
stripe_delete_customer_NotFoundRaises(response) ==
    CASE response = "deleted"          -> "True"
      [] response = "no_such_customer" -> "CustomerNotFoundError"
      [] response = "invalid_request"  -> "IntegrationError"
      [] response = "rate_limit"       -> "RateLimitError"
      [] response = "authentication"   -> "AuthenticationError"
      [] OTHER                         -> "IntegrationError"

\* StripeIntegration.delete_customer, lines 82-100: what the call returns
\* ("True") or the exception class it raises, from the provider's answer.
stripe_delete_customer(response) ==
    CASE response = "deleted"          -> "True"
      [] response = "no_such_customer" -> "True"
      [] response = "invalid_request"  -> "IntegrationError"
      [] response = "rate_limit"       -> "RateLimitError"
      [] response = "authentication"   -> "AuthenticationError"
      [] OTHER                         -> "IntegrationError"

\* The exception classes of integrations/base.py, all of them
\* IntegrationError or a subclass of it.
IntegrationErrors == {"IntegrationError", "CustomerNotFoundError",
                      "CustomerAlreadyExistsError", "RateLimitError",
                      "AuthenticationError"}

\* StripeIntegration.create_customer returning the provider's new id.
AdapterCreate ==
    /\ nextExt <= MaxExt
    /\ stripe' = stripe \cup {nextExt}
    /\ nextExt' = nextExt + 1
    /\ UNCHANGED <<dbVars, outTopic, inTopic, outWorkerVars, inWorkerVars,
                   apiDel, calls, auxVars>>

\* One call of StripeIntegration.delete_customer(ext).
AdapterDelete(ext, fault) ==
    /\ Len(adapterLog) < MaxAdapterCalls
    /\ LET response == ProviderDelete(ext \in stripe, fault)
       IN /\ stripe' = IF response = "deleted" THEN stripe \ {ext} ELSE stripe
          /\ adapterLog' = Append(adapterLog,
                                  [ext |-> ext, response |-> response,
                                   result |-> stripe_delete_customer(response)])
    /\ UNCHANGED <<dbVars, nextExt, outTopic, inTopic, outWorkerVars,
                   inWorkerVars, apiDel, calls, wk, apiResp, reported>>

\* ------------------------------------------------------------------ consumer loop

\* The loop handing each message to a task of its own and going on.
HandlerAwaited_Spawned(pc) == TRUE

\* KafkaClient._consume_messages, lines 106-108: the loop awaits
\* message_handler before it asks the consumer for the next message, so a
\* message is taken only while no process_message is under way.
HandlerAwaited(pc) == pc = "idle"

\* ------------------------------------------------------------------ outbound worker

CurOut == outTopic[outOffset + 1]

\* BaseWorker._handle_message, lines 85-93: does the exception of
\* process_message leave the handler?  It is logged and nothing is raised.
handle_message(raised) == FALSE

\* process_message has returned (raised = FALSE) or raised (raised = TRUE):
\* the consumer moves to the next message.
OutFinish(raised) ==
    /\ outOffset' = outOffset + 1
    /\ outLog' = Append(outLog, [raised |-> raised,
                                  propagated |-> handle_message(raised)])
    /\ ob' = ObIdle

\* The SyncEvent with retry_count counting every processing of the message.
OutEvent_CountsAttempts(status, retry_count) ==
    SyncEvent("out", outOffset + 1, CurOut.event_type, CurOut.id, status, NULL,
              retry_count + 1)

\* The SyncEvent of the delivery in hand, as first committed.
OutEvent(status, retry_count) ==
    SyncEvent("out", outOffset + 1, CurOut.event_type, CurOut.id, status, NULL, retry_count)

\* Lines 82-152 with the deleted branch asking the adapter even when no mapping
\* is found.
OutEarlyStatus_DeleteUnmapped(event_type, mapped) ==
    IF event_type = CREATED THEN (IF mapped THEN "skipped" ELSE "call")
    ELSE IF event_type = UPDATED THEN (IF mapped THEN "call" ELSE "failed")
    ELSE IF event_type = DELETED THEN "call"
    ELSE "completed"

\* Lines 82-152 with the created branch asking the adapter whether or not a
\* mapping is found.
OutEarlyStatus_CreateMapped(event_type, mapped) ==
    IF event_type = CREATED THEN "call"
    ELSE IF event_type = UPDATED THEN (IF mapped THEN "call" ELSE "failed")
    ELSE IF event_type = DELETED THEN (IF mapped THEN "call" ELSE "skipped")
    ELSE "completed"

\* What the branch on event_type decides from the mapping lookup alone: the
\* status committed without asking the adapter, or "call" when the adapter is
\* asked.  An event type that is none of the three falls through to completed.
OutEarlyStatus(event_type, mapped) ==
    IF event_type = CREATED THEN (IF mapped THEN "skipped" ELSE "call")
    ELSE IF event_type = UPDATED THEN (IF mapped THEN "call" ELSE "failed")
    ELSE IF event_type = DELETED THEN (IF mapped THEN "call" ELSE "skipped")
    ELSE "completed"

\* Deleted branch with the mapping removed whatever the adapter answered.
MappingsAfterDelete_Always(ms, cid, ext, deleted) ==
    ms \ {MappingRow(cid, STRIPE, ext)}

\* Deleted branch, lines 154-168: db.delete(mapping) is reached only when
\* delete_customer returned.
MappingsAfterDelete(ms, cid, ext, deleted) ==
    IF deleted THEN ms \ {MappingRow(cid, STRIPE, ext)} ELSE ms

\* Created branch with the mapping never added to the session.
MappingsAfterCreate_Forgotten(ms, cid, ext) == ms

\* Created branch, lines 105-113: the ExternalMapping added to the session.
MappingsAfterCreate(ms, cid, ext) == ms \cup {MappingRow(cid, STRIPE, ext)}

\* Lines 36-43 without the test of the customer id.
ReturnsEarly_IgnoresMissingId(msg) == msg.skip_outbound

\* Lines 36-43 without the test of skip_outbound.
ReturnsEarly_IgnoresMarker(msg) == msg.id = NULLID

\* Lines 36-43: process_message returns at once for a message marked
\* skip_outbound and for a message without customer id.
ReturnsEarly(msg) == msg.skip_outbound \/ msg.id = NULLID

\* KafkaClient.produce_message on sync.outbound by a producer other than the
\* customers API: any event type, any customer id or none, marked
\* skip_outbound or not.
produce_outbound_message(event_type, id, skip) ==
    /\ Len(outTopic) < MaxOutMsgs
    /\ outTopic' = Append(outTopic, [OutMsg(event_type, id) EXCEPT !.skip_outbound = skip])
    /\ UNCHANGED <<dbVars, stripe, nextExt, inTopic, outWorkerVars, inWorkerVars,
                   apiDel, calls, auxVars>>

\* Lines 58-70 without the test of the customer selected.
CustomerMissing_Unchecked(event_type, id, cs) == FALSE

\* Lines 58-70: for an event other than deleted the customer is selected, and
\* none is found.
CustomerMissing(event_type, id, cs) ==
    event_type # DELETED /\ id \notin DOMAIN cs

\* Lines 30-70: the message is taken; the skip_outbound and the missing-id
\* returns; the pending SyncEvent, flushed by the first select, whose
\* rejection is raised through the handler at 183-189 with nothing committed;
\* for an event other than deleted the customer is selected, and a customer
\* that is gone commits failed and returns.
OutReceive ==
    /\ HandlerAwaited(ob.pc)
    /\ outOffset < Len(outTopic)
    /\ IF ReturnsEarly(CurOut)
       THEN /\ OutFinish(FALSE)
            /\ UNCHANGED sync_events
       ELSE IF SyncEventInsertRejected(OutEvent("pending", 0))
       THEN /\ OutFinish(TRUE)
            /\ UNCHANGED sync_events
       ELSE IF CustomerMissing(CurOut.event_type, CurOut.id, customers)
       THEN /\ sync_events' = Append(sync_events, OutEvent("failed", 0))
            /\ OutFinish(FALSE)
       ELSE /\ ob' = [ob EXCEPT !.pc = "select_mapping"]
            /\ UNCHANGED <<sync_events, outOffset, outLog>>
    /\ UNCHANGED <<customers, nextCustId, mappings, stripe, nextExt, outTopic,
                   inTopic, inWorkerVars, apiDel, calls>>
    /\ UNCHANGED auxVars

\* The adapter handed the id of the internal customer instead.
SelectedExternalId_Internal(found) ==
    IF found = {} THEN NULLID
    ELSE (CHOOSE m \in found : TRUE).internal_customer_id + MaxExt

\* mapping.external_id of the row scalar_one_or_none() returned (lines 79,
\* 127, 156); nothing when no row was found.
SelectedExternalId(found) ==
    IF found = {} THEN NULLID
    ELSE (CHOOSE m \in found : TRUE).external_id

\* Lines 72-152: the mapping is selected (for deleted, selected again at 137)
\* and the branch either commits its status and returns or goes on to the
\* adapter.
OutSelectMapping ==
    /\ ob.pc = "select_mapping"
    /\ LET found == MappingsByInternal(mappings, CurOut.id, STRIPE)
           early == OutEarlyStatus(CurOut.event_type, found # {})
       IN  IF early = "call"
           THEN /\ ob' = [ob EXCEPT !.pc = "adapter",
                                    !.external_id = SelectedExternalId(found)]
                /\ UNCHANGED <<sync_events, outOffset, outLog>>
           ELSE /\ sync_events' = Append(sync_events, OutEvent(early, 0))
                /\ OutFinish(FALSE)
    /\ UNCHANGED <<customers, nextCustId, mappings, stripe, nextExt, outTopic,
                   inTopic, inWorkerVars, apiDel, calls>>
    /\ UNCHANGED auxVars

\* Lines 89-96: stripe_integration.create_customer returns the id of the
\* customer the provider created.  (The provider's ids are never empty, so the
\* branch at 98-103 for a falsy id is not taken.)
OutCreateOk ==
    /\ ob.pc = "adapter"
    /\ CurOut.event_type = CREATED
    /\ nextExt <= MaxExt
    /\ stripe' = stripe \cup {nextExt}
    /\ nextExt' = nextExt + 1
    /\ calls' = calls \cup {Call("out", outOffset + 1, "create", nextExt, TRUE)}
    /\ ob' = [ob EXCEPT !.pc = "flush_mapping", !.external_id = nextExt]
    /\ UNCHANGED <<dbVars, outTopic, inTopic, outOffset, outLog, inWorkerVars, apiDel>>
    /\ UNCHANGED auxVars

\* Lines 105-114 and 170-173: the mapping is flushed; then status completed
\* and the commit.  A rejected INSERT rolls the transaction back, the
\* session refuses the commits of both handlers (175-189), and the error
\* leaves process_message with nothing committed.
OutFlushMapping ==
    /\ ob.pc = "flush_mapping"
    /\ IF MappingInsertRejected(customers, mappings,
                                MappingRow(CurOut.id, STRIPE, ob.external_id))
       THEN /\ OutFinish(TRUE)
            /\ UNCHANGED <<mappings, sync_events>>
       ELSE /\ mappings' = MappingsAfterCreate(mappings, CurOut.id, ob.external_id)
            /\ sync_events' = Append(sync_events, OutEvent("completed", 0))
            /\ OutFinish(FALSE)
    /\ UNCHANGED <<customers, nextCustId, stripe, nextExt, outTopic, inTopic,
                   inWorkerVars, apiDel, calls>>
    /\ UNCHANGED auxVars

\* Lines 125-133 and 170-173: update_customer returned; completed is committed.
\* (The provider answers not-found, which the adapter raises, when the
\* external customer is gone.)
OutUpdateOk ==
    /\ ob.pc = "adapter"
    /\ CurOut.event_type = UPDATED
    /\ ob.external_id \in stripe
    /\ calls' = calls \cup {Call("out", outOffset + 1, "update", ob.external_id, TRUE)}
    /\ sync_events' = Append(sync_events, OutEvent("completed", 0))
    /\ OutFinish(FALSE)
    /\ UNCHANGED <<customers, nextCustId, mappings, stripe, nextExt, outTopic,
                   inTopic, inWorkerVars, apiDel>>
    /\ UNCHANGED auxVars

\* Lines 154-161 and 170-173: delete_customer returned True (the customer was
\* deleted, or the provider did not know it); the mapping is deleted and
\* completed is committed.
OutDeleteOk ==
    /\ ob.pc = "adapter"
    /\ CurOut.event_type = DELETED
    /\ calls' = calls \cup {Call("out", outOffset + 1, "delete", ob.external_id, TRUE)}
    /\ stripe' = stripe \ {ob.external_id}
    /\ mappings' = MappingsAfterDelete(mappings, CurOut.id, ob.external_id, TRUE)
    /\ sync_events' = Append(sync_events, OutEvent("completed", 0))
    /\ OutFinish(FALSE)
    /\ UNCHANGED <<customers, nextCustId, nextExt, outTopic, inTopic,
                   inWorkerVars, apiDel>>
    /\ UNCHANGED auxVars

\* create_customer or update_customer raised (rate limit, authentication,
\* any provider error): the handler at 175-181 commits failed with
\* retry_count + 1 and raises again.
OutCallRaises ==
    /\ ob.pc = "adapter"
    /\ CurOut.event_type \in {CREATED, UPDATED}
    /\ calls' = calls \cup
           {Call("out", outOffset + 1,
                 IF CurOut.event_type = CREATED THEN "create" ELSE "update",
                 ob.external_id, FALSE)}
    /\ sync_events' = Append(sync_events, OutEvent("failed", 0 + 1))
    /\ ob' = [ob EXCEPT !.pc = "outer_except", !.row = Len(sync_events) + 1]
    /\ UNCHANGED <<customers, nextCustId, mappings, stripe, nextExt, outTopic,
                   inTopic, outOffset, outLog, inWorkerVars, apiDel>>
    /\ UNCHANGED auxVars

\* delete_customer raised: the handler at 163-168 commits failed and raises
\* again.
OutDeleteRaises ==
    /\ ob.pc = "adapter"
    /\ CurOut.event_type = DELETED
    /\ calls' = calls \cup {Call("out", outOffset + 1, "delete", ob.external_id, FALSE)}
    /\ mappings' = MappingsAfterDelete(mappings, CurOut.id, ob.external_id, FALSE)
    /\ sync_events' = Append(sync_events, OutEvent("failed", 0))
    /\ ob' = [ob EXCEPT !.pc = "inner_except", !.row = Len(sync_events) + 1]
    /\ UNCHANGED <<customers, nextCustId, stripe, nextExt, outTopic, inTopic,
                   outOffset, outLog, inWorkerVars, apiDel>>
    /\ UNCHANGED auxVars

\* Lines 175-181 catching what 168 raised: failed, retry_count + 1, commit,
\* raise.  (sync_event.error is no column of sync_events: nothing of it is
\* stored.)
OutInnerExcept ==
    /\ ob.pc = "inner_except"
    /\ sync_events' = [sync_events EXCEPT ![ob.row].status = "failed",
                                          ![ob.row].retry_count = @ + 1]
    /\ ob' = [ob EXCEPT !.pc = "outer_except"]
    /\ UNCHANGED <<customers, nextCustId, mappings, stripe, nextExt, outTopic,
                   inTopic, outOffset, outLog, inWorkerVars, apiDel, calls>>
    /\ UNCHANGED auxVars

\* Lines 183-189 catching what 181 raised: failed, error_message,
\* retry_count + 1, commit, raise: process_message ends with the exception.
OutOuterExcept ==
    /\ ob.pc = "outer_except"
    /\ sync_events' = [sync_events EXCEPT ![ob.row].status = "failed",
                                          ![ob.row].error_message = ERR,
                                          ![ob.row].retry_count = @ + 1]
    /\ OutFinish(TRUE)
    /\ UNCHANGED <<customers, nextCustId, mappings, stripe, nextExt, outTopic,
                   inTopic, inWorkerVars, apiDel, calls>>
    /\ UNCHANGED auxVars

OutboundNext ==
    \/ OutReceive
    \/ OutSelectMapping
    \/ OutCreateOk
    \/ OutFlushMapping
    \/ OutUpdateOk
    \/ OutDeleteOk
    \/ OutCallRaises
    \/ OutDeleteRaises
    \/ OutInnerExcept
    \/ OutOuterExcept

\* ------------------------------------------------------------------ inbound worker

CurIn == inTopic[inOffset + 1]

\* dict.get(key, default)
Get(value, default) == IF value = ABSENT THEN default ELSE value

\* Lines 45-52 with the lookup finding nothing.
InLookup_Blind(ms, msg) == NULLID

\* Lines 45-52: the mapping of (external_id, source); the internal customer
\* id it names, NULLID when there is none.
InLookup(ms, msg) ==
    LET found == MappingsByExternal(ms, msg.external_id, msg.source)
    IN  IF found = {} THEN NULLID
        ELSE (CHOOSE m \in found : TRUE).internal_customer_id

\* Update branch replacing the whole record, absent fields emptied.
ApplyPayload_Replace(rec, msg) ==
    [name |-> Get(msg.name, ""), email |-> Get(msg.email, "")]

\* Lines 117-118: customer.name = data.get("name", customer.name), and the
\* same for email.
ApplyPayload(rec, msg) ==
    [name |-> Get(msg.name, rec.name), email |-> Get(msg.email, rec.email)]

\* Lines 70-73: Customer(name=data.get("name", ""), email=data.get("email", ""))
NewCustomer(msg) ==
    [name |-> Get(msg.name, ""), email |-> Get(msg.email, "")]

\* What the inbound worker produces on sync.outbound when it has committed:
\* with one message per change of a customer.
InboundPublishes_Echo(topic, event_type, cid, status) ==
    IF status = "completed" THEN Append(topic, OutMsg(event_type, cid)) ELSE topic

\* What the inbound worker produces on sync.outbound when it has committed:
\* lines 144-157 write the tables through the session and call no producer.
InboundPublishes(topic, event_type, cid, status) == topic

\* Lines 54-141: what the branch on event_type asks the session to write,
\* from the message, the mapping found at 45-52 (mapped: its customer id) and
\* the tables as the statements of this step see them.
\*   rejected : an INSERT or UPDATE of customers / external_mappings is refused
\*   status, entity_id, error_message : the SyncEvent built at 144-152
InboundWrites(msg, mapped, cs, ms, nid) ==
    LET keep == [rejected |-> FALSE, customers |-> cs, mappings |-> ms,
                 nextCustId |-> nid, status |-> "pending",
                 entity_id |-> NULLID, error_message |-> NULL]
    IN
    IF msg.event_type = CREATED THEN
        IF mapped # NULLID
        THEN [keep EXCEPT !.status = "skipped", !.entity_id = mapped]
        ELSE LET c == NewCustomer(msg)
                 row == MappingRow(nid, msg.source, msg.external_id)
             IN  IF EmailTaken(cs, c.email, NULLID)
                 THEN [keep EXCEPT !.rejected = TRUE, !.status = "failed"]
                 ELSE IF MappingInsertRejected(CustomersWith(cs, nid, c), ms, row)
                 THEN [keep EXCEPT !.rejected = TRUE, !.status = "completed",
                                   !.entity_id = nid]
                 ELSE [keep EXCEPT !.customers = CustomersWith(cs, nid, c),
                                   !.mappings = ms \cup {row},
                                   !.nextCustId = nid + 1,
                                   !.status = "completed", !.entity_id = nid]
    ELSE IF msg.event_type = UPDATED THEN
        IF mapped = NULLID
        THEN [keep EXCEPT !.status = "failed", !.error_message = "No mapping found"]
        ELSE IF mapped \notin DOMAIN cs
        THEN [keep EXCEPT !.status = "failed", !.error_message = "Customer not found"]
        ELSE LET c == ApplyPayload(cs[mapped], msg)
             IN  IF EmailTaken(cs, c.email, mapped)
                 THEN [keep EXCEPT !.rejected = TRUE, !.status = "completed",
                                   !.entity_id = mapped]
                 ELSE [keep EXCEPT !.customers = CustomersWith(cs, mapped, c),
                                   !.status = "completed", !.entity_id = mapped]
    ELSE IF msg.event_type = DELETED THEN
        IF mapped = NULLID
        THEN [keep EXCEPT !.status = "skipped"]
        ELSE IF mapped \in DOMAIN cs
        THEN [keep EXCEPT !.customers = CustomersWithout(cs, mapped),
                          !.mappings = MappingsWithout(ms, mapped),
                          !.status = "completed", !.entity_id = mapped]
        ELSE [keep EXCEPT !.mappings =
                              ms \ {MappingRow(mapped, msg.source, msg.external_id)}]
    ELSE keep

\* process_message has returned or raised: the consumer moves on.  The log
\* keeps what the tables held for the message's pair when it ended.
InFinish(raised, cs, ms) ==
    /\ inOffset' = inOffset + 1
    /\ inLog' = Append(inLog,
           [raised |-> raised,
            propagated |-> handle_message(raised),
            ncust |-> Cardinality(DOMAIN cs),
            npair |-> Cardinality(MappingsByExternal(ms, CurIn.external_id, CurIn.source)),
            nentity |-> Cardinality({c \in DOMAIN cs :
                           MappingRow(c, CurIn.source, CurIn.external_id) \in ms})])
    /\ ib' = IbIdle

\* Lines 28-52: the message is taken; a message without external id is
\* dropped; the mapping of (external_id, source) is selected.
InReceive ==
    /\ HandlerAwaited(ib.pc)
    /\ inOffset < Len(inTopic)
    /\ IF CurIn.external_id = NULLID
       THEN InFinish(FALSE, customers, mappings)
       ELSE /\ ib' = [pc |-> "apply", customer_id |-> InLookup(mappings, CurIn)]
            /\ UNCHANGED <<inOffset, inLog>>
    /\ UNCHANGED <<dbVars, stripe, nextExt, outTopic, inTopic, outWorkerVars,
                   apiDel, calls>>
    /\ UNCHANGED auxVars

\* The deleted branch asking the adapter to delete the customer it was told
\* about.
InboundAdapterCalls_Deletes(msg, offset) ==
    IF msg.event_type = DELETED
    THEN {Call("in", offset, "delete", msg.external_id, TRUE)}
    ELSE {}

\* The adapter calls of process_message, lines 26-188: self.stripe_integration
\* (line 21) is not referred to again.
InboundAdapterCalls(msg, offset) == {}

\* Lines 54-188: the branch on event_type, the SyncEvent and the commit.  When
\* a statement is refused (a unique constraint, the NOT NULL of
\* sync_events.entity_id) the transaction is rolled back; the handler at
\* 164-184 then asks the same session to commit its SyncEvent, which the
\* session refuses, and raises: nothing is committed.
InApply ==
    /\ ib.pc = "apply"
    /\ CurIn.event_type = CREATED /\ ib.customer_id = NULLID => nextCustId <= MaxCust
    /\ LET w == InboundWrites(CurIn, ib.customer_id, customers, mappings, nextCustId)
           row == SyncEvent("in", inOffset + 1, CurIn.event_type, w.entity_id,
                            w.status, w.error_message, 0)
       IN  IF w.rejected \/ SyncEventInsertRejected(row)
           THEN /\ InFinish(TRUE, customers, mappings)
                /\ UNCHANGED <<dbVars, outTopic>>
           ELSE /\ customers' = w.customers
                /\ mappings' = w.mappings
                /\ nextCustId' = w.nextCustId
                /\ sync_events' = Append(sync_events, row)
                /\ outTopic' = InboundPublishes(outTopic, CurIn.event_type,
                                                w.entity_id, w.status)
                /\ InFinish(FALSE, w.customers, w.mappings)
    /\ calls' = calls \cup InboundAdapterCalls(CurIn, inOffset + 1)
    /\ UNCHANGED <<stripe, nextExt, inTopic, outWorkerVars, apiDel>>
    /\ UNCHANGED auxVars

InboundNext == InReceive \/ InApply

\* ------------------------------------------------------------------ worker lifecycle

\* BaseWorker.start, lines 39-40.
max_retries == 5
base_delay == 1

\* Line 67 with the delay growing by base_delay each time.
BackoffDelay_Linear(retry_count) == base_delay * retry_count

\* Line 67: delay = base_delay * (2 ** (retry_count - 1))
BackoffDelay(retry_count) == base_delay * 2 ^ (retry_count - 1)

\* BaseWorker.stop, lines 77-83: the flag is cleared; the consumer is stopped
\* (and leaves the registry) only when self.consumer is set.
stop(w) ==
    [w EXCEPT !.running = FALSE,
              !.attached = IF w.consumer THEN FALSE ELSE w.attached]

\* Lines 59-75, the handler of a failed attempt: the fifth failure raises
\* through the finally (stop), an earlier one sleeps and tries again.
AfterFailure(w) ==
    LET n == w.retry_count + 1
    IN  IF n >= max_retries
        THEN stop([w EXCEPT !.retry_count = n, !.pc = "raised"])
        ELSE [w EXCEPT !.retry_count = n,
                       !.slept = Append(@, BackoffDelay(n)),
                       !.pc = "attach"]

\* Lines 34-43: start() is called.
WorkerStart ==
    /\ wk.pc = "new"
    /\ wk' = [wk EXCEPT !.pc = "attach", !.running = TRUE, !.retry_count = 0]
    /\ UNCHANGED <<dbVars, stripe, nextExt, outTopic, inTopic, outWorkerVars,
                   inWorkerVars, apiDel, calls, apiResp, reported, adapterLog>>

\* Line 46, start_consumer raising before it consumes (kafka_client 84-97).
AttachFails ==
    /\ wk.pc = "attach"
    /\ wk' = AfterFailure([wk EXCEPT !.attempts = @ + 1])
    /\ UNCHANGED <<dbVars, stripe, nextExt, outTopic, inTopic, outWorkerVars,
                   inWorkerVars, apiDel, calls, apiResp, reported, adapterLog>>

\* Line 46, start_consumer attaching (kafka_client 70-91): the consumer is
\* registered and start_consumer stays in _consume_messages, so self.consumer
\* is not assigned.  The group resumes at the offset it has committed.
AttachOk ==
    /\ wk.pc = "attach"
    /\ wk' = [wk EXCEPT !.attempts = @ + 1, !.attached = TRUE, !.pc = "consuming"]
    /\ outOffset' = wk.committed
    /\ UNCHANGED <<dbVars, stripe, nextExt, outTopic, inTopic, ob, outLog,
                   inWorkerVars, apiDel, calls, apiResp, reported, adapterLog>>

\* enable_auto_commit (kafka_client 79-80): the offsets of the messages
\* fetched so far are committed, whatever the handler made of them.
AutoCommit ==
    /\ wk.pc = "consuming"
    /\ LET fetched == outOffset + (IF ob.pc = "idle" THEN 0 ELSE 1)
       IN  /\ wk.committed # fetched
           /\ wk' = [wk EXCEPT !.committed = fetched]
    /\ UNCHANGED <<dbVars, stripe, nextExt, outTopic, inTopic, outWorkerVars,
                   inWorkerVars, apiDel, calls, apiResp, reported, adapterLog>>

\* The iteration over the consumer raises between two messages
\* (kafka_client 113-115, 95-97): a failed attempt for start().
ConsumeFails ==
    /\ wk.pc = "consuming"
    /\ ob.pc = "idle"
    /\ wk' = AfterFailure(wk)
    /\ UNCHANGED <<dbVars, stripe, nextExt, outTopic, inTopic, outWorkerVars,
                   inWorkerVars, apiDel, calls, apiResp, reported, adapterLog>>

\* stop() called from outside while start() is under way.
WorkerStop ==
    /\ wk.pc \in {"attach", "consuming"}
    /\ ~wk.stop_called
    /\ wk' = [stop(wk) EXCEPT !.stop_called = TRUE]
    /\ UNCHANGED <<dbVars, stripe, nextExt, outTopic, inTopic, outWorkerVars,
                   inWorkerVars, apiDel, calls, apiResp, reported, adapterLog>>

\* _consume_messages with the iteration ending when a handler call failed.
ConsumerIterates_UntilRaise(log) ==
    IF log = <<>> THEN TRUE ELSE ~log[Len(log)].raised

\* _consume_messages 106-112: does the iteration go on after the handler
\* calls logged so far?  An exception of a handler call is caught inside the
\* loop, so it does whatever they ended with.
ConsumerIterates(log) == TRUE

\* _consume_messages 106-108: the next message is handed to the handler
\* while the consumer is attached and iterating.
WorkerConsumes ==
    /\ wk.pc = "consuming"
    /\ ConsumerIterates(outLog)
    /\ OutReceive

LifecycleNext ==
    \/ WorkerStart
    \/ AttachFails
    \/ AttachOk
    \/ AutoCommit
    \/ ConsumeFails
    \/ WorkerStop

\* ------------------------------------------------------------------ the system

ApiNext ==
    \/ \E name \in ApiNames, email \in Emails, produced \in BOOLEAN :
           create_customer(name, email, produced) /\ UNCHANGED apiResp
    \/ \E cid \in 1..MaxCust, name \in ApiNames \cup {ABSENT},
          email \in Emails \cup {ABSENT}, produced \in BOOLEAN :
           update_customer(cid, name, email, produced) /\ UNCHANGED apiResp
    \/ \E cid \in 1..MaxCust, produced \in BOOLEAN :
           delete_customer_publish(cid, produced) /\ UNCHANGED apiResp
    \/ delete_customer_commit /\ UNCHANGED apiResp

\* Messages produced on sync.inbound, at most limit of them.  (The data of a
\* deleted event is not read by the worker beyond the external id.)
WebhookNext(limit) ==
    \/ \E event_type \in {CREATED, UPDATED}, ext \in 1..MaxExt,
          name \in HookNames \cup {NULL}, email \in HookEmails \cup {NULL} :
           stripe_webhook(limit, event_type, ext, name, email) /\ UNCHANGED reported
    \/ \E ext \in 1..MaxExt :
           stripe_webhook(limit, DELETED, ext, NULL, NULL) /\ UNCHANGED reported
    \/ salesforce_webhook(limit)
    \/ \E event_type \in {CREATED, UPDATED}, ext \in 1..MaxExt,
          name \in HookNames \cup {ABSENT}, email \in HookEmails \cup {ABSENT} :
           produce_message(limit, event_type, ext, name, email)

Next == ApiNext \/ WebhookNext(MaxInMsgs) \/ OutboundNext \/ InboundNext

Spec == Init /\ [][Next]_vars

\* The webhook ingress and the inbound worker alone: the API receives no
\* request and sync.outbound stays empty.
InboundOnlyNext == WebhookNext(MaxInSeq) \/ InboundNext

SpecInbound == Init /\ [][InboundOnlyNext]_vars

\* The outbound worker from construction on, fed by the customers created
\* through the API: start() attaching the consumer, the consumer handing
\* customer.created messages to process_message, stop().  (The normal return
\* of start(), lines 52-57, needs start_consumer to return, which it does only
\* once its consumer has been stopped; nothing stops it while self.consumer
\* is unset.)
WorkerNext ==
    \/ LifecycleNext
    \/ \E name \in ApiNames, email \in Emails, produced \in BOOLEAN :
           create_customer(name, email, produced) /\ UNCHANGED apiResp
    \/ WorkerConsumes
    \/ OutSelectMapping
    \/ OutCreateOk
    \/ OutFlushMapping
    \/ OutCallRaises
    \/ OutOuterExcept

SpecWorker == Init /\ [][WorkerNext]_vars

\* The same with the scheduling of the worker's task: a message that is
\* waiting is handed over, a session statement or an adapter call that has
\* been issued ends (returning or raising).
WorkerSteps ==
    \/ WorkerConsumes
    \/ OutSelectMapping
    \/ OutCreateOk
    \/ OutFlushMapping
    \/ OutCallRaises
    \/ OutOuterExcept

FairSpecWorker == SpecWorker /\ WF_vars(WorkerSteps)

\* The event type of the callback the provider sends for an adapter call.
CallbackType(op) ==
    CASE op = "create" -> CREATED
      [] op = "update" -> UPDATED
      [] op = "delete" -> DELETED

\* The provider reports a successful adapter call back through
\* POST /webhooks/stripe, once per call, with the data it holds for the
\* customer (what some call sent).
ProviderCallback ==
    \E c \in calls \ reported :
        /\ c.ok
        /\ reported' = reported \cup {c}
        /\ IF c.op = "delete"
           THEN stripe_webhook(Len(inTopic) + 1, DELETED, c.ext, NULL, NULL)
           ELSE \E name \in ApiNames, email \in Emails :
                    stripe_webhook(Len(inTopic) + 1, CallbackType(c.op), c.ext,
                                   name, email)

\* Customer ids the messages under way may still ask the customers sequence
\* for: a created event the inbound worker has not finished inserts a
\* customer when it finds no mapping, and a created event the outbound worker
\* has not finished, or a create call not yet reported, brings such an event.
IdsOwed ==
    Cardinality({i \in (inOffset + 1)..Len(inTopic) : inTopic[i].event_type = CREATED})
    + Cardinality({i \in (outOffset + 1)..Len(outTopic) : outTopic[i].event_type = CREATED})
    + Cardinality({c \in calls \ reported : c.ok /\ c.op = "create"})

\* The customers sequence has n ids left beyond those owed, so that the
\* bound MaxCust never stops a worker.
Room(n) == (nextCustId - 1) + IdsOwed + n <= MaxCust

\* Webhooks the provider sends of its own accord (not as the callback of an
\* adapter call), at most limit of them.
ProviderWebhook(limit) ==
    /\ \/ \E ext \in 1..MaxExt, name \in HookNames, email \in HookEmails :
              /\ Room(1)
              /\ stripe_webhook(limit + Cardinality(reported), CREATED, ext, name, email)
       \/ \E ext \in 1..MaxExt, name \in HookNames, email \in HookEmails :
              stripe_webhook(limit + Cardinality(reported), UPDATED, ext, name, email)
       \/ \E ext \in 1..MaxExt :
              stripe_webhook(limit + Cardinality(reported), DELETED, ext, NULL, NULL)
    /\ UNCHANGED reported

\* Requests to the customers API.
EchoApi ==
    /\ \/ \E name \in ApiNames, email \in Emails, produced \in BOOLEAN :
              /\ Room(IF produced THEN 2 ELSE 1)
              /\ create_customer(name, email, produced)
       \/ \E cid \in 1..MaxCust, name \in ApiNames \cup {ABSENT},
             email \in Emails \cup {ABSENT}, produced \in BOOLEAN :
              update_customer(cid, name, email, produced)
       \/ \E cid \in 1..MaxCust, produced \in BOOLEAN :
              delete_customer_publish(cid, produced)
       \/ delete_customer_commit
    /\ UNCHANGED apiResp

\* Both directions with the provider calling back: requests to the API, the
\* provider's own webhooks, both workers, and the callbacks of the adapter
\* calls that succeeded.
EchoNext ==
    \/ EchoApi
    \/ ProviderWebhook(MaxInMsgs)
    \/ OutboundNext
    \/ InboundNext
    \/ ProviderCallback

SpecEcho == Init /\ [][EchoNext]_vars

\* The same with both consumers running and the provider delivering its
\* callbacks.
FairSpecEcho ==
    SpecEcho /\ WF_vars(OutboundNext) /\ WF_vars(InboundNext) /\ WF_vars(ProviderCallback)

\* The outbound worker fed by the customers API and by any other producer on
\* sync.outbound.
MarkedNext ==
    \/ ApiNext
    \/ \E event_type \in EventTypes, id \in 0..MaxCust, skip \in BOOLEAN :
           produce_outbound_message(event_type, id, skip)
    \/ OutboundNext

SpecMarked == Init /\ [][MarkedNext]_vars

\* An event type that is none of the three, and the event types a producer
\* other than the customers API may put in a message, none (NULL) included.
OtherEventType == "customer.archived"
ForeignEventTypes == EventTypes \cup {OtherEventType, NULL}

\* The outbound worker fed by the customers API and by a producer of
\* messages with any of these event types.
AnyProducerNext ==
    \/ ApiNext
    \/ \E event_type \in ForeignEventTypes, id \in 0..MaxCust, skip \in BOOLEAN :
           produce_outbound_message(event_type, id, skip)
    \/ OutboundNext

SpecAnyProducer == Init /\ [][AnyProducerNext]_vars

\* Both directions, with messages that carry no customer id arriving on
\* sync.outbound as messages without external id do on sync.inbound.
UnidentifiedNext ==
    \/ Next
    \/ \E event_type \in ForeignEventTypes :
           produce_outbound_message(event_type, NULLID, FALSE)

SpecUnidentified == Init /\ [][UnidentifiedNext]_vars

\* The customers API and the outbound worker, nothing arriving from the
\* provider.
DeleteNext ==
    \/ ApiNext
    \/ OutboundNext

SpecDelete == Init /\ [][DeleteNext]_vars

\* The same with the consumer of sync.outbound running.
FairSpecDelete == SpecDelete /\ WF_vars(OutboundNext)

\* The customers API alone, each request with its answer.
ApiOnlyNext ==
    \/ \E name \in ApiNames, email \in Emails, produced \in BOOLEAN :
           ApiCreate(name, email, produced)
    \/ \E cid \in 1..MaxCust, name \in ApiNames \cup {ABSENT},
          email \in Emails \cup {ABSENT}, produced \in BOOLEAN :
           ApiUpdate(cid, name, email, produced)
    \/ \E cid \in 1..MaxCust, produced \in BOOLEAN : ApiDeletePublish(cid, produced)
    \/ ApiDeleteCommit

SpecApi == Init /\ [][ApiOnlyNext]_vars

\* The adapter called directly, against a provider whose customers come and
\* go through it.
AdapterNext ==
    \/ AdapterCreate
    \/ \E ext \in 1..MaxExt, fault \in Faults \cup {NoFault} : AdapterDelete(ext, fault)

SpecAdapter == Init /\ [][AdapterNext]_vars

\* Typing of the state.
TypeOK ==
    /\ DOMAIN customers \subseteq 1..MaxCust
    /\ nextCustId \in 1..(MaxCust + 1)
    /\ \A m \in mappings : m.internal_customer_id \in 1..MaxCust
    /\ Len(outTopic) <= MaxOutMsgs
    /\ Len(inTopic) <= MaxInSeq
    /\ outOffset = Len(outLog)
    /\ inOffset = Len(inLog)
    /\ stripe \subseteq 1..MaxExt

\* ------------------------------------------------------------------ reading the tables

\* The sync_events rows of one delivery.
RowsOf(src, k) ==
    {i \in DOMAIN sync_events : sync_events[i].src = src /\ sync_events[i].offset = k}

\* The committed status of a delivery's row, "none" when it has no row.
StatusOf(src, k) ==
    IF RowsOf(src, k) = {} THEN "none"
    ELSE sync_events[CHOOSE i \in RowsOf(src, k) : TRUE].status

\* The adapter calls of one outbound delivery.
CallsOf(k) == {c \in calls : c.who = "out" /\ c.offset = k}

\* A step of the outbound worker / of the inbound worker.
OutboundStep == ob' # ob \/ outOffset' # outOffset
InboundStep == ib' # ib \/ inOffset' # inOffset

\* ------------------------------------------------------------------ C1

\* Deliveries k and k+1 of sync.inbound are the same customer.created event
\* and both have been processed.
SameCreatedTwice(k) ==
    /\ k + 1 <= Len(inLog)
    /\ inTopic[k] = inTopic[k + 1]
    /\ inTopic[k].event_type = CREATED
    /\ inTopic[k].external_id # NULLID

\* What C1 promises of the second delivery.
SecondIsSkipped(k) ==
    /\ inLog[k + 1].npair = 1
    /\ inLog[k + 1].nentity = 1
    /\ inLog[k + 1].ncust = inLog[k].ncust
    /\ StatusOf("in", k + 1) = "skipped"
    /\ Cardinality(RowsOf("in", k + 1)) = 1

UniqueMappings ==
    \A m1, m2 \in mappings :
        /\ (m1.external_system = m2.external_system /\ m1.external_id = m2.external_id)
               => m1 = m2
        /\ (m1.external_system = m2.external_system
               /\ m1.internal_customer_id = m2.internal_customer_id) => m1 = m2

\* The pair or the entity of row is already in the Mapping table.
KeyInUse(row) ==
    \E m \in mappings :
        /\ m.external_system = row.external_system
        /\ \/ m.external_id = row.external_id
           \/ m.internal_customer_id = row.internal_customer_id

\* The commit of a worker that inserts a Mapping whose key is in use leaves
\* the Mapping table as it was and ends in the error.
InsertOfUsedKeyRejected ==
    /\ (ob.pc = "flush_mapping" /\ OutboundStep
          /\ KeyInUse(MappingRow(CurOut.id, STRIPE, ob.external_id)))
        => (mappings' = mappings /\ sync_events' = sync_events
              /\ Len(outLog') = Len(outLog) + 1 /\ outLog'[Len(outLog')].raised)
    /\ (ib.pc = "apply" /\ InboundStep /\ CurIn.event_type = CREATED
          /\ ib.customer_id = NULLID
          /\ KeyInUse(MappingRow(nextCustId, CurIn.source, CurIn.external_id)))
        => (mappings' = mappings /\ customers' = customers
              /\ sync_events' = sync_events /\ inLog'[Len(inLog')].raised)

\* C2: in every reachable state each (provider, external id) and each
\* (entity, provider) has at most one Mapping row, and an insert that would
\* break either constraint is rejected and leaves the Mapping table unchanged.
C2_MappingUniqueness == []UniqueMappings /\ [][InsertOfUsedKeyRejected]_vars

\* The outbound worker's insert of (entity, stripe, ext) was rejected because
\* the inbound worker had mapped ext to another entity in the meantime.
C2_Witness ==
    \E k \in 1..Len(outLog) :
        /\ outLog[k].raised
        /\ outTopic[k].event_type = CREATED
        /\ outTopic[k].id \in DOMAIN customers
        /\ MappingsByInternal(mappings, outTopic[k].id, STRIPE) = {}
        /\ \E c \in CallsOf(k) :
               /\ c.op = "create" /\ c.ok
               /\ MappingsByExternal(mappings, c.ext, STRIPE) # {}

\* ------------------------------------------------------------------ C3

\* The message a step appends to sync.outbound is the one the customers API
\* publishes for the mutation it makes in that step.
PublishedByApi ==
    /\ ~OutboundStep
    /\ ~InboundStep
    /\ sync_events' = sync_events
    /\ \E event_type \in EventTypes, cid \in 1..MaxCust :
           /\ outTopic' = Append(outTopic, OutMsg(event_type, cid))
           /\ \/ event_type = CREATED /\ cid \in DOMAIN customers' \ DOMAIN customers
              \/ event_type = UPDATED /\ cid \in DOMAIN customers /\ apiDel' = apiDel
              \/ event_type = DELETED /\ apiDel = NULLID /\ apiDel' = cid

\* C3: no mutation made by the Inbound Sync Worker publishes to sync.outbound;
\* every message on sync.outbound is published by the internal mutation layer.
C3_LoopSuppression ==
    [][/\ InboundStep => outTopic' = outTopic
       /\ outTopic' # outTopic => PublishedByApi]_vars

\* The inbound worker has created, updated or deleted an entity while
\* sync.outbound holds no message at all.
C3_Witness ==
    /\ outTopic = <<>>
    /\ \E i \in DOMAIN sync_events :
           sync_events[i].src = "in" /\ sync_events[i].status = "completed"

\* ------------------------------------------------------------------ C4

\* While the outbound worker handles a failed Adapter.delete, the Mapping row
\* of the entity is still there as long as the entity is.
MappingKeptWhileDeleteFails ==
    (ob.pc \in {"inner_except", "outer_except"} /\ CurOut.event_type = DELETED
        /\ CurOut.id \in DOMAIN customers)
    => MappingRow(CurOut.id, STRIPE, ob.external_id) \in mappings

\* A step of the outbound worker removes a Mapping row only together with an
\* Adapter.delete of the row's external id that returned.
MappingRemovedOnlyAfterDelete ==
    OutboundStep =>
        \A m \in mappings \ mappings' :
            Call("out", outOffset + 1, "delete", m.external_id, TRUE) \in calls' \ calls

Identified(src, k) ==
    IF src = "out"
    THEN ~outTopic[k].skip_outbound /\ outTopic[k].id # NULLID
    ELSE inTopic[k].external_id # NULLID

\* The delivery has exactly one committed row and its status is terminal.
OneTerminalRow(src, k) ==
    /\ Cardinality(RowsOf(src, k)) = 1
    /\ StatusOf(src, k) \in Terminal

\* C5: every message processed by the outbound or the inbound worker has
\* exactly one committed Ledger row, with status completed, failed or skipped.
C5_LedgerCompleteness ==
    /\ \A k \in 1..Len(outLog) : Identified("out", k) => OneTerminalRow("out", k)
    /\ \A k \in 1..Len(inLog) : Identified("in", k) => OneTerminalRow("in", k)

\* ------------------------------------------------------------------ C6

\* Adapter.create raised for delivery k.
CreateRaised(k) ==
    /\ outTopic[k].event_type = CREATED
    /\ \E c \in CallsOf(k) : c.op = "create" /\ ~c.ok

\* C6: when Adapter.create raises for a created event of an unmapped
\* entity, the committed Ledger row is failed with retry_count exactly 1,
\* process_message raises, and no Mapping row is created.
C6_CreateFailure ==
    \A k \in 1..Len(outLog) :
        CreateRaised(k) =>
            /\ Cardinality(RowsOf("out", k)) = 1
            /\ \A i \in RowsOf("out", k) :
                   sync_events[i].status = "failed" /\ sync_events[i].retry_count = 1
            /\ outLog[k].raised
            /\ MappingsByInternal(mappings, outTopic[k].id, STRIPE) = {}

\* ------------------------------------------------------------------ C7

\* The step commits a completed row of an outbound created event of cid.
CommitsCompletedCreate(cid) ==
    \E i \in DOMAIN sync_events' \ DOMAIN sync_events :
        /\ sync_events'[i].src = "out"
        /\ sync_events'[i].event_type = CREATED
        /\ sync_events'[i].status = "completed"
        /\ sync_events'[i].entity_id = cid

\* An outbound step commits a Mapping exactly when it commits the completed
\* row of the created event, for the id Adapter.create returned.
MappingWithLedger ==
    OutboundStep =>
        /\ \A m \in mappings' \ mappings :
               /\ CommitsCompletedCreate(m.internal_customer_id)
               /\ m = MappingRow(CurOut.id, STRIPE, ob.external_id)
               /\ Call("out", outOffset + 1, "create", m.external_id, TRUE) \in calls
        /\ CommitsCompletedCreate(CurOut.id) =>
               MappingRow(CurOut.id, STRIPE, ob.external_id) \in mappings' \ mappings

\* A Mapping whose external id Adapter.create returned for a delivery has
\* that delivery's completed row beside it.
MappingHasLedger ==
    \A m \in mappings : \A c \in calls :
        (c.op = "create" /\ c.ok /\ c.ext = m.external_id
            /\ outTopic[c.offset].id = m.internal_customer_id)
        => StatusOf("out", c.offset) = "completed"

DeletedOfUnmapped ==
    /\ ob.pc = "select_mapping"
    /\ OutboundStep
    /\ CurOut.event_type = DELETED
    /\ MappingsByInternal(mappings, CurOut.id, STRIPE) = {}

UpdateOfMapped ==
    /\ ib.pc = "apply"
    /\ InboundStep
    /\ CurIn.event_type = UPDATED
    /\ ib.customer_id # NULLID
    /\ MappingRow(ib.customer_id, CurIn.source, CurIn.external_id) \in mappings

\* The entity with exactly the fields present in the payload changed.
PartiallyUpdated ==
    CustomersWith(customers, ib.customer_id,
        [name |-> IF CurIn.name = ABSENT THEN customers[ib.customer_id].name
                  ELSE CurIn.name,
         email |-> IF CurIn.email = ABSENT THEN customers[ib.customer_id].email
                   ELSE CurIn.email])

\* The update is applied, recorded as completed, and nothing is published.
UpdateCommitted ==
    /\ customers' = PartiallyUpdated
    /\ mappings' = mappings
    /\ sync_events' = Append(sync_events,
           SyncEvent("in", inOffset + 1, UPDATED, ib.customer_id, "completed", NULL, 0))
    /\ inLog'[Len(inLog')].raised = FALSE
    /\ outTopic' = outTopic

LedgerRowsFinal ==
    /\ \A i \in DOMAIN sync_events' : sync_events'[i].status \in Terminal
    /\ \A i \in DOMAIN sync_events :
           /\ i \in DOMAIN sync_events'
           /\ sync_events[i].status \in Terminal => sync_events'[i] = sync_events[i]

\* C10: the committed status of a Ledger row moves only from pending to
\* completed, failed or skipped, and a row committed with a terminal status
\* is changed by no later commit (status, error message, retry_count).
C10_LedgerTransitions == [][LedgerRowsFinal]_vars

\* ------------------------------------------------------------------ C11

\* The sleeps start() makes between its attempts, in order.
BackoffSchedule == <<1, 2, 4, 8>>

\* start() has called start_consumer at most max_retries times; after its
\* n-th failure (n < max_retries) it has slept the first n delays of the
\* schedule; it has raised exactly when max_retries attempts have failed, and
\* then without a fifth sleep.
StartBounded ==
    /\ wk.attempts <= max_retries
    /\ wk.retry_count <= max_retries
    /\ Len(wk.slept) <= Len(BackoffSchedule)
    /\ wk.slept = SubSeq(BackoffSchedule, 1, Len(wk.slept))
    /\ Len(wk.slept) =
           IF wk.retry_count < max_retries THEN wk.retry_count ELSE max_retries - 1
    /\ (wk.pc = "raised") <=> (wk.retry_count = max_retries)

\* C11: BaseWorker.start attaches the consumer at most 5 times, sleeping 1, 2,
\* 4 and 8 seconds after the first four failures, and raises when the fifth
\* attempt fails: it never retries forever.
C11_StartBounded == StartBounded

\* start() has raised after five calls of start_consumer that all failed,
\* having slept 1, 2, 4 and 8 seconds.
C11_Witness ==
    /\ wk.pc = "raised"
    /\ wk.attempts = 5
    /\ wk.slept = <<1, 2, 4, 8>>

\* ------------------------------------------------------------------ C12

\* The step ends a process_message call with an exception.
ProcessRaises ==
    /\ Len(outLog') = Len(outLog) + 1
    /\ outLog'[Len(outLog')].raised

\* The last message handled failed, the consumer is attached, and a message
\* delivered after it is waiting.
AfterFailedMessage ==
    /\ wk.pc = "consuming"
    /\ ob.pc = "idle"
    /\ outLog # <<>>
    /\ outLog[Len(outLog)].raised
    /\ outOffset < Len(outTopic)

\* C12: an exception raised while one message is processed leaves the consumer
\* loop as it was, and the message delivered after the failed one is handed
\* to process_message as long as the worker is consuming.
C12_LoopSurvivesFailure ==
    /\ [][ProcessRaises => (wk' = wk /\ outOffset' = outOffset + 1)]_vars
    /\ (AfterFailedMessage ~> (ob.pc # "idle" \/ wk.pc # "consuming"))

\* A message is being processed right after one that failed.
C12_Witness ==
    /\ wk.pc = "consuming"
    /\ ob.pc = "select_mapping"
    /\ outLog # <<>>
    /\ outLog[Len(outLog)].raised
    /\ \E c \in calls : c.offset = outOffset /\ ~c.ok

\* ------------------------------------------------------------------ C13

\* An adapter call of outbound delivery k raised.
AdapterFailed(k) == \E c \in CallsOf(k) : ~c.ok

\* C13: the exception process_message raises for a failed adapter call
\* (create, update or delete) leaves the worker's message handler towards the
\* bus consumption layer, and a delivery recorded as skipped raises nothing.
C13_FailurePropagates ==
    \A k \in 1..Len(outLog) :
        /\ AdapterFailed(k) => (outLog[k].raised /\ outLog[k].propagated)
        /\ StatusOf("out", k) = "skipped" => ~outLog[k].raised

\* ------------------------------------------------------------------ C14

\* The rows committed as failed so far, and the most the worker can write.
FailedRows == {i \in DOMAIN sync_events : sync_events[i].status = "failed"}
MaxFailedRows == MaxOutMsgs * max_retries

\* The created event of entity cid has a failed row and the entity no Mapping.
CreateFailed(cid) ==
    /\ MappingsByInternal(mappings, cid, STRIPE) = {}
    /\ \E i \in FailedRows :
           /\ sync_events[i].src = "out"
           /\ sync_events[i].event_type = CREATED
           /\ sync_events[i].entity_id = cid

\* Entity cid has a Mapping and a completed row of its created event.
CreateSynced(cid) ==
    /\ MappingsByInternal(mappings, cid, STRIPE) # {}
    /\ \E i \in DOMAIN sync_events :
           /\ sync_events[i].src = "out"
           /\ sync_events[i].event_type = CREATED
           /\ sync_events[i].entity_id = cid
           /\ sync_events[i].status = "completed"

\* C14: when Adapter.create failed for an outbound created message and no
\* adapter call fails afterwards, then, the worker still consuming, the
\* message is processed again and the entity eventually has a Mapping and a
\* Ledger row with status completed.
C14_CreateEventuallySynced ==
    \A cid \in 1..MaxCust : \A n \in 1..MaxFailedRows :
        (wk.pc = "consuming" /\ CreateFailed(cid) /\ Cardinality(FailedRows) = n)
            ~> \/ CreateSynced(cid)
               \/ Cardinality(FailedRows) > n
               \/ wk.pc # "consuming"

\* ------------------------------------------------------------------ C15

\* The step is a call of stop() from outside.
StopCalled == ~wk.stop_called /\ wk'.stop_called

\* stop() changes the running flag and the consumer's registration only; the
\* process_message call in flight, the tables and the topics are untouched.
StopIsCooperative ==
    StopCalled =>
        /\ ~wk'.running
        /\ wk'.pc = wk.pc
        /\ UNCHANGED <<ob, outOffset, outLog, dbVars, outTopic, calls>>

\* start() is over: it has returned or raised.
StartOver == wk.pc \in {"returned", "raised"}

\* C15: stop() clears the running flag and stops the consumer without
\* cancelling the process_message call in flight, and once stop() has been
\* called the worker eventually is stopped, start() having returned.
C15_StopCooperative ==
    /\ [][StopIsCooperative]_vars
    /\ (wk.stop_called ~> StartOver)

\* ------------------------------------------------------------------ C16

\* A delete_customer call the provider answered without a failure of its own.
Answered(r) == r.response \in {"deleted", "no_such_customer"}

\* C16: Adapter.delete returns success when the provider answers that the
\* customer does not exist, as it does when it deleted it, so that two
\* deletes of the same external id both succeed; every other provider error
\* is raised as an IntegrationError (or a subclass) and never returned as
\* success.
C16_DeleteIdempotent ==
    \A i \in DOMAIN adapterLog :
        LET r == adapterLog[i]
        IN /\ Answered(r) => r.result = "True"
           /\ ~Answered(r) => r.result \in IntegrationErrors
           /\ \A j \in DOMAIN adapterLog :
                  (i < j /\ adapterLog[j].ext = r.ext /\ Answered(r)
                         /\ Answered(adapterLog[j]))
                  => (r.result = "True" /\ adapterLog[j].result = "True")

\* The same external id deleted twice: deleted, then unknown, both True.
C16_Witness ==
    \E i, j \in DOMAIN adapterLog :
        /\ i < j
        /\ adapterLog[i].ext = adapterLog[j].ext
        /\ adapterLog[i].response = "deleted"
        /\ adapterLog[j].response = "no_such_customer"
        /\ adapterLog[i].result = "True"
        /\ adapterLog[j].result = "True"

\* ------------------------------------------------------------------ C17

\* A request is answered in this step.
Answers ==
    \/ customers' # customers
    \/ [apiResp' EXCEPT !.pending = TRUE] # [apiResp EXCEPT !.pending = TRUE]

\* The write the answered request asked for is in the customers table.
WriteCommitted ==
    LET r == apiResp'
    IN CASE r.op = "create" ->
                /\ r.cid \in DOMAIN customers' \ DOMAIN customers
                /\ customers'[r.cid] = [name |-> r.name, email |-> r.email]
         [] r.op = "update" ->
                /\ r.cid \in DOMAIN customers'
                /\ customers'[r.cid] = UpdateFields(customers[r.cid], r.name, r.email)
         [] r.op = "delete" ->
                /\ r.cid \in DOMAIN customers
                /\ r.cid \notin DOMAIN customers'
         [] OTHER -> FALSE

\* C17: a request whose event could not be published is answered with the
\* route's success status all the same (201, 200, 204), its write is
\* committed, and nothing is added to sync.outbound for it.
C17_PublishFailureSwallowed ==
    [][(Answers /\ ~apiResp'.produced)
         => /\ apiResp'.status = (CASE apiResp'.op = "create" -> 201
                                     [] apiResp'.op = "update" -> 200
                                     [] apiResp'.op = "delete" -> 204)
            /\ WriteCommitted
            /\ outTopic' = outTopic]_vars

\* A delete answered 204 after its publish failed, the customer gone.
C17_Witness ==
    /\ apiResp.op = "delete"
    /\ apiResp.status = 204
    /\ ~apiResp.produced
    /\ apiResp.cid \notin DOMAIN customers
    /\ outTopic = <<>>

\* ------------------------------------------------------------------ C18

\* Adapter calls that succeeded and have not been reported back yet.
Unreported == {c \in calls \ reported : c.ok}

\* Every message ever produced is accounted for: sync.outbound holds only the
\* API's events, and sync.inbound the provider's own webhooks and one
\* callback per successful adapter call.
Bounded ==
    /\ Len(outTopic) <= MaxOutMsgs
    /\ Cardinality({c \in calls : c.ok}) <= Len(outTopic)
    /\ Len(inTopic) <= MaxInMsgs + Cardinality(reported)

\* The inbound worker is never held up by the bound on the customers sequence.
NeverStalled ==
    (ib.pc = "apply" /\ CurIn.event_type = CREATED /\ ib.customer_id = NULLID)
        => nextCustId <= MaxCust

\* Both topics consumed to their end, no message in hand, no callback owed.
Drained ==
    /\ outOffset = Len(outTopic)
    /\ inOffset = Len(inTopic)
    /\ ob.pc = "idle"
    /\ ib.pc = "idle"
    /\ Unreported = {}

\* C18: with finitely many API mutations and provider webhooks, and one
\* callback per successful adapter call, the messages produced stay bounded
\* and the system reaches a state from which both topics stay drained (no
\* message is produced any more).
C18_NoSyncLoop == []Bounded /\ []NeverStalled /\ <>[]Drained

\* A callback of an adapter call has gone through the inbound worker and both
\* topics are drained.
C18_Witness ==
    /\ Drained
    /\ reported # {}
    /\ Len(outTopic) = MaxOutMsgs
    /\ \E i \in DOMAIN sync_events :
           sync_events[i].src = "in" /\ sync_events[i].status = "completed"

\* ------------------------------------------------------------------ C19

\* The outbound worker is deciding a created event of an entity that has a
\* Mapping for the provider (the event is delivered again after the consumer
\* was attached anew).
CreatedOfMapped ==
    /\ ob.pc = "select_mapping"
    /\ OutboundStep
    /\ CurOut.event_type = CREATED
    /\ MappingsByInternal(mappings, CurOut.id, STRIPE) # {}

\* C19: a created event of an entity that already has a Mapping commits the
\* Ledger row as skipped, calls Adapter.create never, leaves the Mapping as
\* it is, and raises nothing.
C19_CreateMapped ==
    [][CreatedOfMapped =>
          /\ sync_events' = Append(sync_events,
                 SyncEvent("out", outOffset + 1, CREATED, CurOut.id, "skipped", NULL, 0))
          /\ calls' = calls
          /\ mappings' = mappings
          /\ stripe' = stripe
          /\ Len(outLog') = Len(outLog) + 1
          /\ ~outLog'[Len(outLog')].raised]_vars

\* A created event has been completed and, delivered again, skipped: the
\* entity has its one Mapping and the adapter created one customer for it.
C19_Witness ==
    \E i, j \in DOMAIN sync_events :
        /\ i < j
        /\ sync_events[i].src = "out" /\ sync_events[j].src = "out"
        /\ sync_events[i].event_type = CREATED /\ sync_events[j].event_type = CREATED
        /\ sync_events[i].entity_id = sync_events[j].entity_id
        /\ sync_events[i].status = "completed"
        /\ sync_events[j].status = "skipped"
        /\ Cardinality(MappingsByInternal(mappings, sync_events[j].entity_id, STRIPE)) = 1
        /\ Cardinality({c \in calls : c.op = "create" /\ c.ok}) = 1

\* ------------------------------------------------------------------ C20

\* The outbound worker is deciding an updated event of an entity without
\* Mapping.
UpdatedOfUnmapped ==
    /\ ob.pc = "select_mapping"
    /\ OutboundStep
    /\ CurOut.event_type = UPDATED
    /\ MappingsByInternal(mappings, CurOut.id, STRIPE) = {}

\* C20: an updated event of an entity that has no Mapping commits one Ledger
\* row with status failed, retry_count 0 and an error message saying that no
\* mapping was found; the adapter is not called and nothing is raised.
C20_UpdateUnmapped ==
    [][UpdatedOfUnmapped =>
          /\ Len(sync_events') = Len(sync_events) + 1
          /\ LET row == sync_events'[Len(sync_events')]
             IN  /\ row.src = "out"
                 /\ row.event_type = UPDATED
                 /\ row.entity_id = CurOut.id
                 /\ row.status = "failed"
                 /\ row.retry_count = 0
                 /\ row.error_message # NULL
          /\ calls' = calls
          /\ Len(outLog') = Len(outLog) + 1
          /\ ~outLog'[Len(outLog')].raised]_vars

\* ------------------------------------------------------------------ C21

\* The outbound worker selects the Mapping of an updated event and finds one.
UpdateSelectsMapping ==
    /\ ob.pc = "select_mapping"
    /\ OutboundStep
    /\ CurOut.event_type = UPDATED
    /\ MappingsByInternal(mappings, CurOut.id, STRIPE) # {}

\* The outbound worker's call of Adapter.update ends.
UpdateCallEnds ==
    /\ ob.pc = "adapter"
    /\ OutboundStep
    /\ CurOut.event_type = UPDATED

\* The call is made with the external id of the entity's one Mapping, and
\* nothing but the call's outcome is written: completed on success, failed
\* (and the way to the raise) on failure, the Mapping left alone.
UpdateOfMappedCalls ==
    /\ UpdateSelectsMapping =>
           /\ ob'.pc = "adapter"
           /\ MappingsByInternal(mappings, CurOut.id, STRIPE)
                  = {MappingRow(CurOut.id, STRIPE, ob'.external_id)}
           /\ calls' = calls /\ mappings' = mappings
    /\ UpdateCallEnds =>
           /\ mappings' = mappings
           /\ \E ok \in BOOLEAN :
                  /\ calls' = calls \cup
                         {Call("out", outOffset + 1, "update", ob.external_id, ok)}
                  /\ Len(sync_events') = Len(sync_events) + 1
                  /\ sync_events'[Len(sync_events')].status =
                         (IF ok THEN "completed" ELSE "failed")
                  /\ IF ok THEN /\ Len(outLog') = Len(outLog) + 1
                                /\ ~outLog'[Len(outLog')].raised
                     ELSE ob'.pc = "outer_except"

\* Every finished updated delivery that reached the adapter made exactly one
\* update call; its row is completed and nothing was raised when the call
\* succeeded, failed and process_message raised when it did not.
UpdateOutcomeRecorded ==
    \A k \in 1..Len(outLog) :
        (outTopic[k].event_type = UPDATED /\ CallsOf(k) # {}) =>
            /\ Cardinality(CallsOf(k)) = 1
            /\ Cardinality(RowsOf("out", k)) = 1
            /\ \A c \in CallsOf(k) :
                   /\ c.op = "update"
                   /\ c.ok => (StatusOf("out", k) = "completed" /\ ~outLog[k].raised)
                   /\ ~c.ok => (StatusOf("out", k) = "failed" /\ outLog[k].raised)

\* C21: an updated event of a mapped entity calls Adapter.update with the
\* external id of the entity's Mapping; on success the Ledger row is
\* completed, on failure it is failed and the exception is raised; the
\* Mapping is unchanged either way.
C21_UpdateMapped == []UpdateOutcomeRecorded /\ [][UpdateOfMappedCalls]_vars

\* Two updated events of a mapped entity have been handled, one with the
\* adapter succeeding and one with it failing; the Mapping is still there.
C21_Witness ==
    \E k1, k2 \in 1..Len(outLog) :
        /\ outTopic[k1].event_type = UPDATED /\ outTopic[k2].event_type = UPDATED
        /\ outTopic[k1].id = outTopic[k2].id
        /\ \E c \in CallsOf(k1) : c.ok
        /\ \E c \in CallsOf(k2) : ~c.ok
        /\ StatusOf("out", k1) = "completed"
        /\ StatusOf("out", k2) = "failed" /\ outLog[k2].raised
        /\ MappingsByInternal(mappings, outTopic[k1].id, STRIPE) # {}

\* ------------------------------------------------------------------ C22

\* The outbound worker takes a message that carries the skip_outbound marker.
TakesMarked ==
    /\ ob.pc = "idle"
    /\ OutboundStep
    /\ CurOut.skip_outbound

\* No adapter call and no Ledger row belongs to a marked message.
MarkedLeavesNoTrace ==
    \A k \in 1..Len(outTopic) :
        outTopic[k].skip_outbound => (CallsOf(k) = {} /\ RowsOf("out", k) = {})

\* C22: a message marked skip_outbound is never processed by the outbound
\* worker: whatever its event type, taking it ends process_message at once,
\* with no adapter call and no change to any Mapping, entity or the provider.
C22_MarkedSkipped ==
    /\ []MarkedLeavesNoTrace
    /\ [][TakesMarked =>
             /\ ob' = ob
             /\ outOffset' = outOffset + 1
             /\ ~outLog'[Len(outLog')].raised
             /\ calls' = calls
             /\ mappings' = mappings
             /\ customers' = customers
             /\ stripe' = stripe
             /\ sync_events' = sync_events]_vars

\* A marked deleted message of a mapped entity has been taken: the Mapping
\* and the entity are still there and the only adapter call is the create
\* that made the Mapping.
C22_Witness ==
    /\ Len(outLog) = 2
    /\ outTopic[1].event_type = CREATED /\ ~outTopic[1].skip_outbound
    /\ outTopic[2].event_type = DELETED /\ outTopic[2].skip_outbound
    /\ outTopic[2].id = outTopic[1].id
    /\ MappingsByInternal(mappings, outTopic[1].id, STRIPE) # {}
    /\ outTopic[1].id \in DOMAIN customers
    /\ calls # {}
    /\ \A c \in calls : c.op = "create" /\ c.ok

\* ------------------------------------------------------------------ C23

\* The inbound worker is applying an updated event whose (provider, external
\* id) has no Mapping.
UpdatedWithoutMapping ==
    /\ ib.pc = "apply"
    /\ InboundStep
    /\ CurIn.event_type = UPDATED
    /\ ib.customer_id = NULLID

\* C23: an inbound updated event without Mapping commits one Ledger row with
\* status failed and no entity id, and changes no entity and no Mapping.
C23_InboundUpdateUnmapped ==
    [][UpdatedWithoutMapping =>
          /\ Len(sync_events') = Len(sync_events) + 1
          /\ LET row == sync_events'[Len(sync_events')]
             IN  /\ row.src = "in"
                 /\ row.event_type = UPDATED
                 /\ row.status = "failed"
                 /\ row.entity_id = NULLID
          /\ customers' = customers
          /\ mappings' = mappings]_vars

\* ------------------------------------------------------------------ C24

\* The inbound worker is applying a deleted event whose (provider, external
\* id) has no Mapping.
DeletedWithoutMapping ==
    /\ ib.pc = "apply"
    /\ InboundStep
    /\ CurIn.event_type = DELETED
    /\ ib.customer_id = NULLID

\* C24: an inbound deleted event without Mapping commits one Ledger row with
\* status skipped and no entity id, deletes no entity and raises nothing.
C24_InboundDeleteUnmapped ==
    [][DeletedWithoutMapping =>
          /\ Len(sync_events') = Len(sync_events) + 1
          /\ LET row == sync_events'[Len(sync_events')]
             IN  /\ row.src = "in"
                 /\ row.event_type = DELETED
                 /\ row.status = "skipped"
                 /\ row.entity_id = NULLID
          /\ customers' = customers
          /\ Len(inLog') = Len(inLog) + 1
          /\ ~inLog'[Len(inLog')].raised]_vars

\* ------------------------------------------------------------------ C25

\* The inbound worker is applying a deleted event whose Mapping exists.
DeletedWithMapping ==
    /\ ib.pc = "apply"
    /\ InboundStep
    /\ CurIn.event_type = DELETED
    /\ ib.customer_id # NULLID
    /\ MappingRow(ib.customer_id, CurIn.source, CurIn.external_id) \in mappings

\* One step removes the entity and its Mapping and commits the completed
\* row; neither lookup finds a Mapping afterwards.
DeleteRemovesBoth ==
    DeletedWithMapping =>
        /\ ib.customer_id \in DOMAIN customers
        /\ customers' = CustomersWithout(customers, ib.customer_id)
        /\ sync_events' = Append(sync_events,
               SyncEvent("in", inOffset + 1, DELETED, ib.customer_id, "completed", NULL, 0))
        /\ MappingsByExternal(mappings', CurIn.external_id, CurIn.source) = {}
        /\ MappingsByInternal(mappings', ib.customer_id, CurIn.source) = {}

\* No Mapping is ever committed without its entity.
NoMappingWithoutEntity ==
    \A m \in mappings : m.internal_customer_id \in DOMAIN customers

\* C25: an inbound deleted event whose Mapping exists removes the mapped
\* entity and the Mapping in the transaction that commits the completed
\* Ledger row; afterwards no Mapping is found by (provider, external id) nor
\* by (internal id, provider).
C25_InboundDeleteMapped == []NoMappingWithoutEntity /\ [][DeleteRemovesBoth]_vars

\* An entity synchronised to the provider has been deleted by an inbound
\* deleted event: completed row, entity and Mapping gone.
C25_Witness ==
    \E i \in DOMAIN sync_events :
        /\ sync_events[i].src = "in"
        /\ sync_events[i].event_type = DELETED
        /\ sync_events[i].status = "completed"
        /\ sync_events[i].entity_id \notin DOMAIN customers
        /\ MappingsByInternal(mappings, sync_events[i].entity_id, STRIPE) = {}
        /\ MappingsByExternal(mappings, inTopic[sync_events[i].offset].external_id, STRIPE) = {}
        /\ \E j \in DOMAIN sync_events :
               /\ sync_events[j].src = "out"
               /\ sync_events[j].event_type = CREATED
               /\ sync_events[j].status = "completed"
               /\ sync_events[j].entity_id = sync_events[i].entity_id

\* ------------------------------------------------------------------ C26

\* The inbound worker is applying a created event whose (provider, external
\* id) had no Mapping when it was looked up.
CreatedWithoutMapping ==
    /\ ib.pc = "apply"
    /\ InboundStep
    /\ CurIn.event_type = CREATED
    /\ ib.customer_id = NULLID

\* The step commits the new entity, its Mapping (the only one of the pair)
\* and the completed row together.
CreateCommitsAll ==
    LET row == MappingRow(nextCustId, CurIn.source, CurIn.external_id)
    IN  /\ DOMAIN customers' = DOMAIN customers \cup {nextCustId}
        /\ nextCustId \notin DOMAIN customers
        /\ row \notin mappings
        /\ mappings' = mappings \cup {row}
        /\ MappingsByExternal(mappings', CurIn.external_id, CurIn.source) = {row}
        /\ sync_events' = Append(sync_events,
               SyncEvent("in", inOffset + 1, CREATED, nextCustId, "completed", NULL, 0))
        /\ ~inLog'[Len(inLog')].raised

\* The step commits nothing and process_message raises.
CreateCommitsNothing ==
    /\ customers' = customers
    /\ mappings' = mappings
    /\ sync_events' = sync_events
    /\ inLog'[Len(inLog')].raised

\* C26: an inbound created event without Mapping commits the new entity,
\* its Mapping and the completed Ledger row together or, when one of the
\* writes fails, none of them: neither the entity nor the Mapping exists
\* afterwards.
C26_InboundCreateAtomic ==
    [][CreatedWithoutMapping => (CreateCommitsAll \/ CreateCommitsNothing)]_vars

\* A created event whose Mapping insert was refused (the pair was mapped by
\* the outbound worker after the lookup): it raised and left no row, no
\* entity of its own and no Mapping of its own.
C26_Witness ==
    \E k \in 1..Len(inLog) :
        /\ inTopic[k].event_type = CREATED
        /\ inLog[k].raised
        /\ RowsOf("in", k) = {}
        /\ inLog[k].npair = 1
        /\ inLog[k].nentity = 1
        /\ \A c \in DOMAIN customers : customers[c].email # inTopic[k].email

\* ------------------------------------------------------------------ C27

\* C27: a committed Ledger row has retry_count above 0 only when its status
\* is failed; every completed or skipped row has retry_count 0.
C27_RetryOnlyOnFailure ==
    \A i \in DOMAIN sync_events :
        sync_events[i].retry_count > 0 => sync_events[i].status = "failed"

\* The Ledger holds a completed row, a skipped row and a failed row whose
\* retry_count was incremented.
C27_Witness ==
    /\ \E i \in DOMAIN sync_events :
           sync_events[i].status = "completed" /\ sync_events[i].retry_count = 0
    /\ \E i \in DOMAIN sync_events :
           sync_events[i].status = "skipped" /\ sync_events[i].retry_count = 0
    /\ \E i \in DOMAIN sync_events :
           sync_events[i].status = "failed" /\ sync_events[i].retry_count > 0

\* ------------------------------------------------------------------ C28

\* The internal write an event on sync.outbound tells of is committed in the
\* state the event is published in.
WriteCommittedFor(msg) ==
    CASE msg.event_type = CREATED -> msg.id \in DOMAIN customers' \ DOMAIN customers
      [] msg.event_type = UPDATED -> msg.id \in DOMAIN customers' /\ apiDel' = apiDel
      [] msg.event_type = DELETED -> msg.id \notin DOMAIN customers'
      [] OTHER -> FALSE

\* C28: for create, update and delete alike, the event is published on
\* sync.outbound only once the internal write has been committed; no event
\* exists for a write that is not committed yet.
C28_PublishAfterCommit ==
    [][outTopic' # outTopic =>
          /\ Len(outTopic') = Len(outTopic) + 1
          /\ WriteCommittedFor(outTopic'[Len(outTopic')])]_vars

\* ------------------------------------------------------------------ C29

\* process_message begins for a message of sync.outbound / sync.inbound: the
\* worker goes to its first statement, or is already done with the message
\* (the early returns).
OutboundStarts ==
    \/ ob'.pc = "select_mapping" /\ ob.pc # "select_mapping"
    \/ outOffset' # outOffset /\ ob.pc \notin {"select_mapping", "adapter", "flush_mapping",
                                                "inner_except", "outer_except"}
InboundStarts ==
    \/ ib'.pc = "apply" /\ ib.pc # "apply"
    \/ inOffset' # inOffset /\ ib.pc # "apply"

\* Messages are finished in order, one by one, and a worker that has
\* finished a message holds nothing of it.
OneAtATime ==
    /\ OutboundStarts => (ob = ObIdle /\ outOffset = Len(outLog))
    /\ InboundStarts => (ib = IbIdle /\ inOffset = Len(inLog))
    /\ outOffset' # outOffset => (outOffset' = outOffset + 1 /\ ob' = ObIdle)
    /\ inOffset' # inOffset => (inOffset' = inOffset + 1 /\ ib' = IbIdle)
    /\ ob'.pc = "adapter" => ob.pc \in {"adapter", "select_mapping"}
    /\ ib'.pc = "apply" => ib.pc \in {"apply", "idle"}

\* C29: a worker processes its messages strictly one at a time:
\* process_message for a message begins only when the one for the previous
\* message has returned or raised, its transaction committed or rolled back.
C29_OneAtATime == [][OneAtATime]_vars

\* The outbound worker has finished its first message with a committed row
\* and is in the middle of the second.
C29_Witness ==
    /\ Len(outLog) = 1
    /\ RowsOf("out", 1) # {}
    /\ ob.pc = "adapter"
    /\ outOffset = 1

\* ------------------------------------------------------------------ C30

\* The worker takes a message from its consumer.
TakesMessage == ob.pc = "idle" /\ (ob' # ob \/ Len(outLog') > Len(outLog))

\* The worker enters running: start_consumer has attached a consumer.
EntersRunning == wk'.pc = "consuming" /\ wk.pc # "consuming"

\* C30: the worker goes stopped, starting, running, stopping, stopped and no
\* other way: it takes no message before start() has attached a consumer,
\* it enters running only from starting, and once stop() has begun it does
\* not enter running again.
C30_Lifecycle ==
    [][/\ TakesMessage => (wk.attached /\ wk.pc = "consuming")
       /\ EntersRunning => wk.pc = "attach"
       /\ wk.stop_called => ~EntersRunning]_vars

\* ------------------------------------------------------------------ C31

\* The entities Adapter.create returned the external id ext for, still there.
CreatedFor(ext) ==
    {outTopic[c.offset].id : c \in {d \in calls : d.op = "create" /\ d.ok /\ d.ext = ext}}
        \cap DOMAIN customers

\* The inbound worker is applying the provider's created event for an
\* external id that the outbound worker's Adapter.create returned.
AppliesCreatedCallback ==
    /\ ib.pc = "apply"
    /\ InboundStep
    /\ CurIn.event_type = CREATED
    /\ CreatedFor(CurIn.external_id) # {}

\* C31: however the outbound worker's processing of the created event of E
\* (Adapter.create returning X) and the inbound worker's processing of the
\* provider's created event for X interleave, the inbound outcome is skipped
\* and no second internal entity is created for X.
C31_CreateCallbackRace ==
    [][AppliesCreatedCallback =>
          /\ customers' = customers
          /\ Len(sync_events') = Len(sync_events) + 1
          /\ sync_events'[Len(sync_events')].src = "in"
          /\ sync_events'[Len(sync_events')].status = "skipped"]_vars

\* ------------------------------------------------------------------ C32

\* The step deletes entities, and every Mapping row of each goes with it.
DeleteTakesMappings ==
    \A cid \in DOMAIN customers \ DOMAIN customers' :
        {m \in mappings' : m.internal_customer_id = cid} = {}

\* C32: in every reachable state each Mapping row refers to an entity that
\* exists; a step that deletes an entity, in the customers API or in the
\* inbound worker, removes all of its Mapping rows with it.
C32_MappingsHaveEntity ==
    /\ [](\A m \in mappings : m.internal_customer_id \in DOMAIN customers)
    /\ [][DeleteTakesMappings]_vars

\* An entity that had been synchronised (its Mapping committed by the
\* outbound worker) was deleted through the API; no Mapping of it is left.
C32_Witness ==
    \E i \in DOMAIN sync_events, k \in 1..Len(outTopic) :
        /\ sync_events[i].src = "out"
        /\ sync_events[i].event_type = CREATED
        /\ sync_events[i].status = "completed"
        /\ outTopic[k].event_type = DELETED
        /\ outTopic[k].id = sync_events[i].entity_id
        /\ outOffset < k
        /\ apiDel = NULLID
        /\ outTopic[k].id \notin DOMAIN customers
        /\ mappings = {}
        /\ calls # {}

\* ------------------------------------------------------------------ C33

\* DELETE /customers/cid has published its deleted event and not committed
\* yet, and the entity is mapped to external id ext.
DeletePublished(cid, ext) ==
    /\ apiDel = cid
    /\ MappingRow(cid, STRIPE, ext) \in mappings
    /\ \E k \in DOMAIN outTopic : outTopic[k] = OutMsg(DELETED, cid)

\* C33: when an entity that has a Mapping is deleted through the API, the
\* outbound worker eventually calls the adapter's delete for the mapped
\* external id, however the request's commit and the worker interleave.
C33_DeleteReachesProvider ==
    \A cid \in 1..MaxCust, ext \in 1..MaxExt :
        DeletePublished(cid, ext)
            ~> (\E c \in calls : c.who = "out" /\ c.op = "delete" /\ c.ext = ext)

\* ------------------------------------------------------------------ C34

\* The adapter calls of the outbound worker that succeeded with operation op
\* while it processed a message about entity cid.
SucceededFor(op, cid) ==
    {c \in calls : /\ c.who = "out" /\ c.op = op /\ c.ok
                   /\ outTopic[c.offset].id = cid}

\* The Mapping that followed the successful create call d of entity cid has
\* been removed: by a deleted event the worker processed later, or with the
\* entity itself.
MappingRemovedSince(cid, d) ==
    \/ cid \notin DOMAIN customers
    \/ \E r \in SucceededFor("delete", cid) : r.offset > d.offset

\* C34: however many created messages about one entity the outbound worker
\* processes one after the other, the adapter's create succeeds at most once
\* for the entity as long as its Mapping is not removed: a step in which
\* create succeeds again finds the Mapping of every earlier success removed.
C34_CreateOncePerEntity ==
    [][\A cid \in 1..MaxCust :
          SucceededFor("create", cid)' # SucceededFor("create", cid)
              => \A d \in SucceededFor("create", cid) :
                     /\ MappingRemovedSince(cid, d)
                     /\ MappingsByInternal(mappings, cid, STRIPE) = {}]_vars

\* Two created messages about the same entity have been processed: the first
\* created the external customer and the Mapping, the second was skipped.
C34_Witness ==
    /\ Len(outTopic) = 2
    /\ outOffset = 2
    /\ outTopic[1].event_type = CREATED
    /\ outTopic[2].event_type = CREATED
    /\ outTopic[1].id = outTopic[2].id
    /\ ~outTopic[2].skip_outbound
    /\ Cardinality(SucceededFor("create", outTopic[1].id)) = 1
    /\ StatusOf("out", 1) = "completed"
    /\ StatusOf("out", 2) = "skipped"

\* ------------------------------------------------------------------ C35

\* start() is between failed attach attempts, no consumer attached so far,
\* and stop() has been called.
StoppedBetweenAttempts ==
    /\ wk.stop_called
    /\ wk.pc = "attach"
    /\ wk.retry_count > 0
    /\ ~wk.attached

\* C35: once stop() has been called while start() waits between failed
\* attach attempts, start() makes no further attach attempt, and a message
\* is handed to process_message only while the running flag is true.
C35_StopBetweenAttempts ==
    [][/\ StoppedBetweenAttempts => wk'.attempts = wk.attempts
       /\ TakesMessage => wk.running]_vars

\* ------------------------------------------------------------------ C36

\* C36: the inbound worker never calls the adapter: a step of it leaves the
\* adapter's calls, the provider's customers and both topics as they were,
\* whatever it does to customers, mappings and sync_events.
C36_InboundLeavesProvider ==
    [][InboundStep =>
          /\ calls' = calls
          /\ stripe' = stripe
          /\ nextExt' = nextExt
          /\ outTopic' = outTopic
          /\ inTopic' = inTopic]_vars

\* The inbound worker has applied the provider's deleted event to an entity
\* the outbound worker had mapped: entity and Mapping are gone, the row is
\* completed, and the only adapter call is the outbound worker's create.
C36_Witness ==
    /\ inOffset = 1
    /\ inTopic[1].event_type = DELETED
    /\ StatusOf("in", 1) = "completed"
    /\ customers = <<>>
    /\ mappings = {}
    /\ calls = {Call("out", 1, "create", inTopic[1].external_id, TRUE)}

\* ------------------------------------------------------------------ C37

\* The outbound worker takes a created or updated message whose entity is
\* not in customers any more.
TakesEventOfMissingEntity ==
    /\ ob.pc = "idle"
    /\ OutboundStep
    /\ ~ReturnsEarly(CurOut)
    /\ CurOut.event_type \in {CREATED, UPDATED}
    /\ CurOut.id \notin DOMAIN customers

\* C37: a created or updated event whose entity no longer exists is finished
\* at once: one row with status failed is committed, no adapter call is
\* made, no Mapping changes, and process_message raises nothing.
C37_MissingEntityFails ==
    [][TakesEventOfMissingEntity =>
          /\ sync_events' = Append(sync_events,
                 SyncEvent("out", outOffset + 1, CurOut.event_type, CurOut.id,
                           "failed", NULL, 0))
          /\ calls' = calls
          /\ mappings' = mappings
          /\ stripe' = stripe
          /\ outOffset' = outOffset + 1
          /\ ob'.pc = "idle"
          /\ outLog' = Append(outLog, [raised |-> FALSE, propagated |-> FALSE])]_vars

\* The API created an entity and deleted it before the worker came to its
\* created event: the event's row is failed and no adapter call was made.
C37_Witness ==
    /\ outOffset >= 1
    /\ outTopic[1].event_type = CREATED
    /\ outTopic[1].id \notin DOMAIN customers
    /\ StatusOf("out", 1) = "failed"
    /\ CallsOf(1) = {}
    /\ ~outLog[1].raised
    /\ mappings = {}

\* ------------------------------------------------------------------ C38

\* The outbound worker takes an unmarked message without customer id.
TakesOutboundWithoutId ==
    ob.pc = "idle" /\ OutboundStep /\ CurOut.id = NULLID /\ ~CurOut.skip_outbound

\* The inbound worker takes a message without external id.
TakesInboundWithoutId ==
    ib.pc = "idle" /\ InboundStep /\ CurIn.external_id = NULLID

\* C38: a message the worker cannot identify (outbound without customer id,
\* inbound without external id) is dropped: the step that takes it changes
\* no customer, Mapping or sync_events row, makes no adapter call, leaves the
\* provider and both topics alone, and the handler call does not raise.
C38_UnidentifiedDropped ==
    [][/\ TakesOutboundWithoutId =>
            /\ outOffset' = outOffset + 1
            /\ ob'.pc = "idle"
            /\ Len(outLog') = Len(outLog) + 1
            /\ ~outLog'[Len(outLog')].raised
       /\ TakesInboundWithoutId =>
            /\ inOffset' = inOffset + 1
            /\ ib'.pc = "idle"
            /\ Len(inLog') = Len(inLog) + 1
            /\ ~inLog'[Len(inLog')].raised
       /\ (TakesOutboundWithoutId \/ TakesInboundWithoutId) =>
            /\ UNCHANGED <<customers, nextCustId, mappings, sync_events>>
            /\ UNCHANGED <<calls, stripe, nextExt, outTopic, inTopic>>]_vars

\* Each worker has taken such a message and dropped it: no row, no call, no
\* exception.
C38_Witness ==
    /\ outOffset >= 1
    /\ outTopic[1].id = NULLID
    /\ ~outTopic[1].skip_outbound
    /\ ~outLog[1].raised
    /\ inOffset >= 1
    /\ inTopic[1].external_id = NULLID
    /\ ~inLog[1].raised
    /\ sync_events = <<>>
    /\ calls = {}

\* ------------------------------------------------------------------ C39

\* The outbound worker takes an unmarked message whose event type is none of
\* the three and whose customer exists.
TakesUnknownEvent ==
    /\ ob.pc = "idle"
    /\ OutboundStep
    /\ ~ReturnsEarly(CurOut)
    /\ CurOut.event_type \notin EventTypes
    /\ CurOut.id \in DOMAIN customers

\* The outbound worker goes on with such a message after its customer was
\* found.
FinishesUnknownEvent ==
    /\ ob.pc # "idle"
    /\ OutboundStep
    /\ CurOut.event_type \notin EventTypes

\* C39: for a message whose event type is none of customer.created,
\* customer.updated, customer.deleted and whose entity exists, the outbound
\* worker makes no adapter call, leaves the mappings unchanged and commits
\* the message's row with status completed.
C39_UnknownEventCompleted ==
    [][/\ TakesUnknownEvent =>
            /\ ob'.pc = "select_mapping"
            /\ UNCHANGED <<calls, mappings, stripe, sync_events>>
       /\ FinishesUnknownEvent =>
            /\ UNCHANGED <<calls, mappings, stripe>>
            /\ sync_events' = Append(sync_events,
                   SyncEvent("out", outOffset + 1, CurOut.event_type, CurOut.id,
                             "completed", NULL, 0))
            /\ ob'.pc = "idle"
            /\ outOffset' = outOffset + 1]_vars

====
